---- MODULE Spec2Model ----
(***************************************************************************)
(* Model of the reajuste calculation engine (matheusjcandido/reajuste):    *)
(* the decimal arithmetic core (src/utils/decimal_utils.py), the           *)
(* adjustment formula engine (src/services/calculation.py), the index,     *)
(* contract and audit services over the database (src/services, src/db)    *)
(* and the calculation page (src/views/calculate.py).                      *)
(*                                                                         *)
(* A Python Decimal is modelled as the library holds it: a sign, a         *)
(* coefficient (a sequence of digits) and an exponent.  The arithmetic of  *)
(* the decimal context (28 significant digits, ROUND_HALF_EVEN) is carried *)
(* out on the digit sequences, so that a quotient of 28 digits is computed *)
(* as the library computes it.                                             *)
(***************************************************************************)
EXTENDS Integers, Sequences, FiniteSets, TLC

(***************************************************************************)
(* Bounds of the model.                                                    *)
(***************************************************************************)
MaxCoef == 7       \* small coefficients range over -3 .. MaxCoef
MaxExp == 2        \* decimal places of the small decimals: 0 .. MaxExp
MaxStrLen == 3     \* longest text handed to ensure_decimal
LastYear == 2025   \* dates range over 2023 .. LastYear
MaxCalculos == 2   \* calculations saved in the database
MaxRows == 2       \* rows of a seeding spreadsheet

(***************************************************************************)
(* Program constants.                                                      *)
(***************************************************************************)
Prec == 28             \* getcontext().prec
KPlaces == 4           \* Decimal("0.0001")
CentPlaces == 2        \* Decimal("0.01")
MinIntersticio == 365  \* if diferenca < 365

(***************************************************************************)
(* Python values.                                                          *)
(***************************************************************************)
Big(neg, dig, exp) == [type |-> "Decimal", neg |-> neg, dig |-> dig, exp |-> exp]
StrV(s) == [type |-> "str", s |-> s]
IntV(n) == [type |-> "int", n |-> n]
BoolV(b) == [type |-> "bool", b |-> b]
FloatV(c, e) == [type |-> "float", c |-> c, e |-> e]
None == [type |-> "NoneType"]
ListV == [type |-> "list"]

IsDecimal(v) == v.type = "Decimal"

Ok(v) == [kind |-> "ok", val |-> v]
Raise(exc, text, vals) == [kind |-> "raise", exc |-> exc, text |-> text, vals |-> vals]
IsOk(r) == r.kind = "ok"
Raises(r, exc) == r.kind = "raise" /\ r.exc = exc

(***************************************************************************)
(* Digit sequences (most significant digit first).                         *)
(***************************************************************************)
RECURSIVE Pow10(_)
Pow10(n) == IF n <= 0 THEN 1 ELSE 10 * Pow10(n - 1)

Abs(n) == IF n < 0 THEN -n ELSE n

RECURSIVE DigitsOf(_)
DigitsOf(n) == IF n < 10 THEN <<n>> ELSE Append(DigitsOf(n \div 10), n % 10)

RECURSIVE IntOf(_)
IntOf(ds) == IF ds = <<>> THEN 0 ELSE 10 * IntOf(SubSeq(ds, 1, Len(ds) - 1)) + ds[Len(ds)]

Zeros(n) == [i \in 1..n |-> 0]
AllZero(ds) == \A i \in 1..Len(ds) : ds[i] = 0

RECURSIVE StripLead(_)
StripLead(ds) == IF Len(ds) > 1 /\ ds[1] = 0 THEN StripLead(Tail(ds)) ELSE ds

\* ds + 1, with carry; one digit longer when ds is all nines
RECURSIVE Incr(_)
Incr(ds) ==
  IF ds = <<>> THEN <<1>>
  ELSE IF ds[Len(ds)] < 9 THEN [ds EXCEPT ![Len(ds)] = @ + 1]
  ELSE Append(Incr(SubSeq(ds, 1, Len(ds) - 1)), 0)

\* a + b and a - b (a >= b) for digit sequences of equal length
RECURSIVE AddDigs(_, _, _)
AddDigs(a, b, carry) ==
  IF a = <<>> THEN (IF carry = 0 THEN <<>> ELSE <<carry>>)
  ELSE LET n == Len(a)
           s == a[n] + b[n] + carry
       IN  Append(AddDigs(SubSeq(a, 1, n - 1), SubSeq(b, 1, n - 1), s \div 10), s % 10)

RECURSIVE SubDigs(_, _, _)
SubDigs(a, b, borrow) ==
  IF a = <<>> THEN <<>>
  ELSE LET n == Len(a)
           d == a[n] - b[n] - borrow
       IN  Append(SubDigs(SubSeq(a, 1, n - 1), SubSeq(b, 1, n - 1), IF d < 0 THEN 1 ELSE 0),
                  IF d < 0 THEN d + 10 ELSE d)

\* a * d + carry for a digit d, and the product a * b
RECURSIVE MulByDigit(_, _, _)
MulByDigit(a, d, carry) ==
  IF a = <<>> THEN (IF carry = 0 THEN <<>> ELSE <<carry>>)
  ELSE LET n == Len(a)
           p == a[n] * d + carry
       IN  Append(MulByDigit(SubSeq(a, 1, n - 1), d, p \div 10), p % 10)

RECURSIVE MulDigs(_, _)
MulDigs(a, b) ==
  IF b = <<>> THEN <<0>>
  ELSE LET hi == Append(MulDigs(a, SubSeq(b, 1, Len(b) - 1)), 0)
           lo == MulByDigit(a, b[Len(b)], 0)
           n == IF Len(hi) > Len(lo) THEN Len(hi) ELSE Len(lo)
       IN  AddDigs([i \in 1..(n - Len(hi)) |-> 0] \o hi, [i \in 1..(n - Len(lo)) |-> 0] \o lo, 0)

\* a < b for digit sequences of equal length
RECURSIVE LessDigs(_, _)
LessDigs(a, b) ==
  IF a = <<>> THEN FALSE
  ELSE IF a[1] # b[1] THEN a[1] < b[1]
  ELSE LessDigs(Tail(a), Tail(b))

(***************************************************************************)
(* Decimal arithmetic of the context (prec = 28, ROUND_HALF_EVEN), on      *)
(* Decimals [neg, dig, exp] of value (-1)^neg * dig * 10^exp.              *)
(***************************************************************************)
\* Decimal("c / 10^e") for an integer c and e >= 0 decimal places
Dec(c, e) == Big(c < 0, DigitsOf(Abs(c)), -e)
Max(a, b) == IF a > b THEN a ELSE b
Min(a, b) == IF a < b THEN a ELSE b

\* Decimal._fix: round the coefficient to prec digits, half to even
Fix(x) ==
  IF Len(x.dig) <= Prec THEN x
  ELSE LET keep == SubSeq(x.dig, 1, Prec)
           drop == SubSeq(x.dig, Prec + 1, Len(x.dig))
           up == \/ drop[1] > 5
                 \/ drop[1] = 5 /\ (~AllZero(Tail(drop)) \/ keep[Prec] % 2 = 1)
           k2 == IF up THEN Incr(keep) ELSE keep
           over == Len(k2) > Prec
       IN  Big(x.neg, IF over THEN SubSeq(k2, 1, Prec) ELSE k2,
               x.exp + Len(drop) + (IF over THEN 1 ELSE 0))

\* n further quotient digits of r / D by long division, and what remains
RECURSIVE LongDivDigits(_, _, _)
LongDivDigits(r, D, n) ==
  IF n = 0 THEN <<>> ELSE <<(r * 10) \div D>> \o LongDivDigits((r * 10) % D, D, n - 1)

RECURSIVE LongDivRem(_, _, _)
LongDivRem(r, D, n) == IF n = 0 THEN r ELSE LongDivRem((r * 10) % D, D, n - 1)

\* an exact quotient is brought as close to the ideal exponent as possible
RECURSIVE StripTrail(_, _)
StripTrail(x, ideal) ==
  IF x.exp < ideal /\ x.dig[Len(x.dig)] = 0
  THEN StripTrail(Big(x.neg, IF Len(x.dig) = 1 THEN <<0>> ELSE SubSeq(x.dig, 1, Len(x.dig) - 1),
                      x.exp + 1), ideal)
  ELSE x

\* Decimal.__truediv__ of finite operands, b # 0
DecDivide(a, b) ==
  LET A == IntOf(a.dig)
      B == IntOf(b.dig)
      neg == a.neg # b.neg
      ideal == a.exp - b.exp
  IN  IF A = 0 THEN Big(neg, <<0>>, ideal)
      ELSE LET shift == Len(DigitsOf(B)) - Len(DigitsOf(A)) + Prec + 1
               exp == ideal - shift
               coeff == IF shift >= 0
                        THEN StripLead(DigitsOf(A \div B) \o LongDivDigits(A % B, B, shift))
                        ELSE DigitsOf(A \div (B * Pow10(-shift)))
               rem == IF shift >= 0 THEN LongDivRem(A % B, B, shift)
                      ELSE A % (B * Pow10(-shift))
               n == Len(coeff)
           IN  IF rem # 0
               THEN Fix(Big(neg, IF coeff[n] % 5 = 0 THEN [coeff EXCEPT ![n] = @ + 1] ELSE coeff, exp))
               ELSE Fix(StripTrail(Big(neg, coeff, exp), ideal))

\* the same value at a lower exponent e <= x.exp
PadTo(x, e) == Big(x.neg, StripLead(x.dig \o Zeros(x.exp - e)), e)
LeftPad(ds, n) == Zeros(n - Len(ds)) \o ds

\* Decimal.__add__ of finite operands (with decimal._normalize)
BigAdd(x, y) ==
  LET e == Min(x.exp, y.exp) IN
  IF AllZero(x.dig) /\ AllZero(y.dig) THEN Big(x.neg /\ y.neg, <<0>>, e)
  ELSE IF AllZero(x.dig) THEN Fix(PadTo(y, Max(e, y.exp - Prec - 1)))
  ELSE IF AllZero(y.dig) THEN Fix(PadTo(x, Max(e, x.exp - Prec - 1)))
  ELSE LET tmp == IF x.exp < y.exp THEN y ELSE x
           oth == IF x.exp < y.exp THEN x ELSE y
           expn == tmp.exp + Min(-1, Len(tmp.dig) - Prec - 2)
           o2 == IF Len(oth.dig) + oth.exp - 1 < expn THEN Big(oth.neg, <<1>>, expn) ELSE oth
           t2 == PadTo(tmp, o2.exp)
           n == Max(Len(t2.dig), Len(o2.dig))
           a == LeftPad(t2.dig, n)
           b == LeftPad(o2.dig, n)
       IN  IF t2.neg = o2.neg THEN Fix(Big(t2.neg, StripLead(AddDigs(a, b, 0)), o2.exp))
           ELSE IF a = b THEN Fix(Big(FALSE, <<0>>, e))
           ELSE IF LessDigs(a, b) THEN Fix(Big(o2.neg, StripLead(SubDigs(b, a, 0)), o2.exp))
           ELSE Fix(Big(t2.neg, StripLead(SubDigs(a, b, 0)), o2.exp))

BigNeg(x) == Big(~x.neg, x.dig, x.exp)
DecSub(x, y) == BigAdd(x, BigNeg(y))

\* Decimal.__mul__ of finite operands
DecMul(a, b) == Fix(Big(a.neg # b.neg, StripLead(MulDigs(a.dig, b.dig)), a.exp + b.exp))

\* the rounding functions of the decimal module: 1 when the kept coefficient
\* is to be incremented
RoundChanged(rounding, neg, keep, drop) ==
  CASE rounding = "ROUND_DOWN" -> 0
    [] rounding = "ROUND_FLOOR" -> IF neg /\ ~AllZero(drop) THEN 1 ELSE 0
    [] rounding = "ROUND_CEILING" -> IF ~neg /\ ~AllZero(drop) THEN 1 ELSE 0
    [] rounding = "ROUND_HALF_UP" -> IF drop # <<>> /\ drop[1] >= 5 THEN 1 ELSE 0
    [] rounding = "ROUND_HALF_EVEN" ->
         IF drop = <<>> \/ drop[1] < 5 THEN 0
         ELSE IF drop[1] > 5 \/ ~AllZero(Tail(drop)) THEN 1
         ELSE IF keep # <<>> /\ keep[Len(keep)] % 2 = 1 THEN 1 ELSE 0
    [] OTHER -> 0

\* Decimal._rescale to exponent -places
Rescale(x, places, rounding) ==
  IF AllZero(x.dig) THEN Big(x.neg, <<0>>, -places)
  ELSE IF x.exp >= -places THEN Big(x.neg, x.dig \o Zeros(x.exp + places), -places)
  ELSE LET d0 == Len(x.dig) + x.exp + places
           y == IF d0 < 0 THEN Big(x.neg, <<1>>, -places - 1) ELSE x
           digits == IF d0 < 0 THEN 0 ELSE d0
           keep == SubSeq(y.dig, 1, digits)
           drop == SubSeq(y.dig, digits + 1, Len(y.dig))
           changed == RoundChanged(rounding, y.neg, keep, drop)
           coeff == IF keep = <<>> THEN <<0>> ELSE keep
       IN  Big(y.neg, IF changed = 1 THEN StripLead(Incr(coeff)) ELSE coeff, -places)

\* Decimal.quantize(Decimal("0.0001" or "0.01"), rounding): the value on the
\* grid of `places` decimal digits, or InvalidOperation when the result has
\* more digits than the context holds
Quantize(x, places, rounding) ==
  IF AllZero(x.dig) THEN Ok(Big(x.neg, <<0>>, -places))
  ELSE IF (x.exp + Len(x.dig) - 1) + places + 1 > Prec
       THEN Raise("InvalidOperation", "quantize result has too many digits", <<>>)
  ELSE LET ans == Rescale(x, places, rounding)
       IN  IF Len(ans.dig) > Prec
           THEN Raise("InvalidOperation", "quantize result has too many digits", <<>>)
           ELSE Ok(ans)


\* comparisons of a Decimal with zero
IsZero(d) == AllZero(d.dig)
IsNegative(d) == d.neg /\ ~AllZero(d.dig)


(***************************************************************************)
(* src/utils/decimal_utils.py                                              *)
(***************************************************************************)
\* truncate_at_4_decimals with the rounding of a quantize call that rounds half
\* up, and with one that rounds toward zero
truncate_at_4_decimals_half_up(value) ==
  IF value = None THEN Ok(None)
  ELSE IF ~IsDecimal(value) THEN Raise("TypeError", "Expected Decimal, got", <<value.type>>)
  ELSE Quantize(value, KPlaces, "ROUND_HALF_UP")

truncate_at_4_decimals_round_down(value) ==
  IF value = None THEN Ok(None)
  ELSE IF ~IsDecimal(value) THEN Raise("TypeError", "Expected Decimal, got", <<value.type>>)
  ELSE Quantize(value, KPlaces, "ROUND_DOWN")

\* a floor taken as the truncation toward zero less one unit for every
\* negative value, exact ones included
truncate_at_4_decimals_negative_step(value) ==
  IF value = None THEN Ok(None)
  ELSE IF ~IsDecimal(value) THEN Raise("TypeError", "Expected Decimal, got", <<value.type>>)
  ELSE LET q == Quantize(value, KPlaces, "ROUND_DOWN")
       IN  IF IsOk(q) /\ IsNegative(value) THEN Ok(DecSub(q.val, Dec(1, KPlaces))) ELSE q

\* truncate_at_4_decimals rounding toward plus infinity
truncate_at_4_decimals_ceiling(value) ==
  IF value = None THEN Ok(None)
  ELSE IF ~IsDecimal(value) THEN Raise("TypeError", "Expected Decimal, got", <<value.type>>)
  ELSE Quantize(value, KPlaces, "ROUND_CEILING")

truncate_at_4_decimals(value) ==
  IF value = None THEN Ok(None)
  ELSE IF ~IsDecimal(value) THEN Raise("TypeError", "Expected Decimal, got", <<value.type>>)
  ELSE Quantize(value, KPlaces, "ROUND_FLOOR")

\* truncate_at_2_decimals rounding toward zero, and without the early return
\* for an absent value
truncate_at_2_decimals_round_down(value) ==
  IF value = None THEN Ok(None)
  ELSE IF ~IsDecimal(value) THEN Raise("TypeError", "Expected Decimal, got", <<value.type>>)
  ELSE Quantize(value, CentPlaces, "ROUND_DOWN")

truncate_at_2_decimals_none_rejected(value) ==
  IF ~IsDecimal(value) THEN Raise("TypeError", "Expected Decimal, got", <<value.type>>)
  ELSE Quantize(value, CentPlaces, "ROUND_FLOOR")

truncate_at_2_decimals(value) ==
  IF value = None THEN Ok(None)
  ELSE IF ~IsDecimal(value) THEN Raise("TypeError", "Expected Decimal, got", <<value.type>>)
  ELSE Quantize(value, CentPlaces, "ROUND_FLOOR")

\* Decimal(text): an optional sign, then digits with an optional point,
\* at least one digit in all
DigitChars == <<"0", "1", "2", "3", "4", "5", "6", "7", "8", "9">>
IsDigit(ch) == \E i \in 1..10 : DigitChars[i] = ch
DigitVal(ch) == CHOOSE d \in 0..9 : DigitChars[d + 1] = ch

RECURSIVE DigitPrefix(_)
DigitPrefix(s) == IF s # <<>> /\ IsDigit(s[1]) THEN 1 + DigitPrefix(Tail(s)) ELSE 0

DecimalFromText(s) ==
  LET signed == s # <<>> /\ s[1] \in {"-", "+"}
      body == IF signed THEN Tail(s) ELSE s
      n == DigitPrefix(body)
      intpart == SubSeq(body, 1, n)
      rest == SubSeq(body, n + 1, Len(body))
      fracpart == IF rest = <<>> THEN <<>> ELSE Tail(rest)
      starts == body # <<>> /\ (IsDigit(body[1])
                  \/ (body[1] = "." /\ Len(body) >= 2 /\ IsDigit(body[2])))
      matches == starts /\ (rest = <<>>
                  \/ (rest[1] = "." /\ \A i \in 1..Len(fracpart) : IsDigit(fracpart[i])))
      digs == [i \in 1..(Len(intpart) + Len(fracpart)) |->
                 DigitVal((intpart \o fracpart)[i])]
  IN  IF matches
      THEN Ok(Big(signed /\ s[1] = "-", StripLead(digs), -Len(fracpart)))
      ELSE Raise("InvalidOperation", "Invalid literal for Decimal", <<s>>)

\* ensure_decimal converting a float through its text, as Decimal(str(value))
ensure_decimal_float_through_text(value) ==
  IF value.type = "Decimal" THEN Ok(value)
  ELSE IF value.type = "str"
       THEN LET r == DecimalFromText(value.s)
            IN  IF IsOk(r) THEN r
                ELSE Raise("ValueError", "Cannot convert string to Decimal", <<value>>)
  ELSE IF value.type = "int" THEN Ok(Big(value.n < 0, DigitsOf(Abs(value.n)), 0))
  ELSE IF value.type = "float" THEN Ok(Big(value.c < 0, DigitsOf(Abs(value.c)), -value.e))
  ELSE Raise("TypeError", "Cannot convert to Decimal", <<value.type>>)

ensure_decimal(value) ==
  IF value.type = "Decimal" THEN Ok(value)
  ELSE IF value.type = "str"
       THEN LET r == DecimalFromText(value.s)
            IN  IF IsOk(r) THEN r
                ELSE Raise("ValueError", "Cannot convert string to Decimal", <<value>>)
  ELSE IF value.type = "int" THEN Ok(Big(value.n < 0, DigitsOf(Abs(value.n)), 0))
  ELSE IF value.type = "float"
       THEN Raise("TypeError", "Cannot convert float to Decimal directly", <<value>>)
  ELSE Raise("TypeError", "Cannot convert to Decimal", <<value.type>>)

(***************************************************************************)
(* src/services/calculation.py                                             *)
(***************************************************************************)
\* calcular_fator_k_truncado testing the signs before the zero base index
calcular_fator_k_truncado_sign_first(indice_inicial, indice_final) ==
  LET r0 == ensure_decimal(indice_inicial) IN
  IF ~IsOk(r0) THEN r0 ELSE
  LET r1 == ensure_decimal(indice_final) IN
  IF ~IsOk(r1) THEN r1 ELSE
  IF IsNegative(r0.val) \/ IsNegative(r1.val)
  THEN Raise("ValueError", "Indices must be positive values", <<>>)
  ELSE IF IsZero(r0.val) THEN Raise("ValueError", "Base index (I_0) cannot be zero", <<>>)
  ELSE LET k_bruto == DecSub(DecDivide(r1.val, r0.val), Dec(1, 0))
       IN  truncate_at_4_decimals(k_bruto)

\* K from the magnitude of the raw factor
calcular_fator_k_truncado_magnitude(indice_inicial, indice_final) ==
  LET r0 == ensure_decimal(indice_inicial) IN
  IF ~IsOk(r0) THEN r0 ELSE
  LET r1 == ensure_decimal(indice_final) IN
  IF ~IsOk(r1) THEN r1 ELSE
  IF IsZero(r0.val) THEN Raise("ValueError", "Base index (I_0) cannot be zero", <<>>)
  ELSE IF IsNegative(r0.val) \/ IsNegative(r1.val)
       THEN Raise("ValueError", "Indices must be positive values", <<>>)
  ELSE LET k_bruto == DecSub(DecDivide(r1.val, r0.val), Dec(1, 0))
       IN  truncate_at_4_decimals(Big(FALSE, k_bruto.dig, k_bruto.exp))

calcular_fator_k_truncado(indice_inicial, indice_final) ==
  LET r0 == ensure_decimal(indice_inicial) IN
  IF ~IsOk(r0) THEN r0 ELSE
  LET r1 == ensure_decimal(indice_final) IN
  IF ~IsOk(r1) THEN r1 ELSE
  IF IsZero(r0.val) THEN Raise("ValueError", "Base index (I_0) cannot be zero", <<>>)
  ELSE IF IsNegative(r0.val) \/ IsNegative(r1.val)
       THEN Raise("ValueError", "Indices must be positive values", <<>>)
  ELSE LET k_bruto == DecSub(DecDivide(r1.val, r0.val), Dec(1, 0))
       IN  truncate_at_4_decimals(k_bruto)

\* calcular_valor_reajuste refusing a zero measurement as well
calcular_valor_reajuste_zero_rejected(valor_medicao, fator_k) ==
  LET r0 == ensure_decimal(valor_medicao) IN
  IF ~IsOk(r0) THEN r0 ELSE
  LET r1 == ensure_decimal(fator_k) IN
  IF ~IsOk(r1) THEN r1 ELSE
  IF IsNegative(r0.val) \/ IsZero(r0.val)
  THEN Raise("ValueError", "Measurement value (Vr) cannot be negative", <<>>)
  ELSE truncate_at_2_decimals(DecMul(r0.val, r1.val))

\* calcular_valor_reajuste taking a negative measurement for zero instead of
\* raising
calcular_valor_reajuste_negative_suppressed(valor_medicao, fator_k) ==
  LET r0 == ensure_decimal(valor_medicao) IN
  IF ~IsOk(r0) THEN r0 ELSE
  LET r1 == ensure_decimal(fator_k) IN
  IF ~IsOk(r1) THEN r1 ELSE
  IF IsNegative(r0.val)
  THEN truncate_at_2_decimals(DecMul(Dec(0, 0), r1.val))
  ELSE truncate_at_2_decimals(DecMul(r0.val, r1.val))

calcular_valor_reajuste(valor_medicao, fator_k) ==
  LET r0 == ensure_decimal(valor_medicao) IN
  IF ~IsOk(r0) THEN r0 ELSE
  LET r1 == ensure_decimal(fator_k) IN
  IF ~IsOk(r1) THEN r1 ELSE
  IF IsNegative(r0.val)
  THEN Raise("ValueError", "Measurement value (Vr) cannot be negative", <<>>)
  ELSE truncate_at_2_decimals(DecMul(r0.val, r1.val))

\* calcular_valor_total_atualizado with the domain check of calcular_valor_reajuste
calcular_valor_total_atualizado_checked(valor_medicao, valor_reajuste) ==
  LET r0 == ensure_decimal(valor_medicao) IN
  IF ~IsOk(r0) THEN r0 ELSE
  LET r1 == ensure_decimal(valor_reajuste) IN
  IF ~IsOk(r1) THEN r1 ELSE
  IF IsNegative(r0.val)
  THEN Raise("ValueError", "Measurement value (Vr) cannot be negative", <<>>)
  ELSE truncate_at_2_decimals(BigAdd(r0.val, r1.val))

calcular_valor_total_atualizado(valor_medicao, valor_reajuste) ==
  LET r0 == ensure_decimal(valor_medicao) IN
  IF ~IsOk(r0) THEN r0 ELSE
  LET r1 == ensure_decimal(valor_reajuste) IN
  IF ~IsOk(r1) THEN r1 ELSE
  truncate_at_2_decimals(BigAdd(r0.val, r1.val))

\* datetime.date: the proleptic Gregorian ordinal of a date
Date(y, m, d) == [y |-> y, m |-> m, d |-> d]
IsLeap(y) == y % 4 = 0 /\ (y % 100 # 0 \/ y % 400 = 0)
DaysInMonth(y, m) ==
  IF m = 2 THEN (IF IsLeap(y) THEN 29 ELSE 28)
  ELSE IF m \in {4, 6, 9, 11} THEN 30 ELSE 31
DaysBeforeYear(y) == (y - 1) * 365 + (y - 1) \div 4 - (y - 1) \div 100 + (y - 1) \div 400
RECURSIVE DaysBeforeMonth(_, _)
DaysBeforeMonth(y, m) == IF m = 1 THEN 0 ELSE DaysBeforeMonth(y, m - 1) + DaysInMonth(y, m - 1)
ToOrdinal(dt) == DaysBeforeYear(dt.y) + DaysBeforeMonth(dt.y, dt.m) + dt.d

\* validar_intersticio_legal asking for more than 365 days
validar_intersticio_legal_strict(data_base_orcamento, mes_reajuste) ==
  LET diferenca == ToOrdinal(mes_reajuste) - ToOrdinal(data_base_orcamento)
  IN  IF diferenca <= MinIntersticio
      THEN Ok(<<FALSE, [text |-> "Intersticio legal nao cumprido",
                        vals |-> <<diferenca, data_base_orcamento>>]>>)
      ELSE Ok(<<TRUE, [text |-> "Intersticio legal cumprido", vals |-> <<diferenca>>]>>)

validar_intersticio_legal(data_base_orcamento, mes_reajuste) ==
  LET diferenca == ToOrdinal(mes_reajuste) - ToOrdinal(data_base_orcamento)
  IN  IF diferenca < MinIntersticio
      THEN Ok(<<FALSE, [text |-> "Intersticio legal nao cumprido",
                        vals |-> <<diferenca, data_base_orcamento>>]>>)
      ELSE Ok(<<TRUE, [text |-> "Intersticio legal cumprido", vals |-> <<diferenca>>]>>)

(***************************************************************************)
(* src/db/models.py: the DecimalType column and the three tables. A row    *)
(* holds, for a DecimalType column, the Decimal read back from the stored  *)
(* text. data_calculo and data_criacao (the clock) are left out.           *)
(***************************************************************************)
DigitText(ds) == [i \in 1..Len(ds) |-> DigitChars[ds[i] + 1]]

\* str(Decimal) in plain notation, which Python uses for an exponent <= 0 and
\* fewer than six zeros after the point
DecimalText(d) ==
  LET places == -d.exp
      padded == IF Len(d.dig) > places THEN d.dig
                ELSE Zeros(places - Len(d.dig) + 1) \o d.dig
      m == Len(padded)
  IN  (IF d.neg THEN <<"-">> ELSE <<>>)
        \o DigitText(SubSeq(padded, 1, m - places))
        \o (IF places > 0 THEN <<".">> \o DigitText(SubSeq(padded, m - places + 1, m))
            ELSE <<>>)

\* str(int) and str(float): a float prints its shortest digits, with ".0" when
\* it is whole
IntText(n) == (IF n < 0 THEN <<"-">> ELSE <<>>) \o DigitText(DigitsOf(Abs(n)))
RECURSIVE FloatShortest(_, _)
FloatShortest(c, e) ==
  IF e > 0 /\ c % 10 = 0 THEN FloatShortest(c \div 10, e - 1) ELSE <<c, e>>
FloatText(f) ==
  LET s == FloatShortest(f.c, f.e)
  IN  IF s[2] = 0 THEN IntText(s[1]) \o <<".", "0">> ELSE DecimalText(Dec(s[1], s[2]))

\* DecimalType.process_bind_param binding a float as the other types are not
process_bind_param_float_rejected(value) ==
  IF value = None THEN Ok(None)
  ELSE IF value.type = "Decimal" THEN Ok(StrV(DecimalText(value)))
  ELSE IF value.type = "int"
       THEN Ok(StrV(DecimalText(DecimalFromText(IntText(value.n)).val)))
  ELSE Raise("ValueError", "Expected Decimal, got", <<value.type>>)

process_bind_param(value) ==
  IF value = None THEN Ok(None)
  ELSE IF value.type = "Decimal" THEN Ok(StrV(DecimalText(value)))
  ELSE IF value.type \in {"int", "float"}
       THEN LET text == IF value.type = "int" THEN IntText(value.n) ELSE FloatText(value)
            IN  Ok(StrV(DecimalText(DecimalFromText(text).val)))
  ELSE Raise("ValueError", "Expected Decimal, got", <<value.type>>)

process_result_value(value) ==
  IF value = None THEN Ok(None)
  ELSE LET r == DecimalFromText(value.s)
       IN  IF IsOk(r) THEN r
           ELSE Raise("ValueError", "Could not convert to Decimal", <<value>>)

\* what a DecimalType column gives back for a value bound to it
ReadBack(bound) == IF IsOk(bound) THEN process_result_value(bound.val) ELSE bound
DecimalColumn(value) == ReadBack(process_bind_param(value))

IndiceEconomico(data_referencia, nome_indice, valor) ==
  [data_referencia |-> data_referencia, nome_indice |-> nome_indice,
   valor |-> DecimalColumn(valor).val]

Contrato(id, numero_contrato, objeto, empresa, data_base_orcamento, data_assinatura, valor_inicial) ==
  [id |-> id, numero_contrato |-> numero_contrato, objeto |-> objeto, empresa |-> empresa,
   data_base_orcamento |-> data_base_orcamento, data_assinatura |-> data_assinatura,
   valor_inicial |-> DecimalColumn(valor_inicial).val]

CalculoRealizado(id, contrato_id, mes_indice_base, valor_indice_base, mes_indice_reajuste, valor_indice_reajuste, fator_k_aplicado, valor_original_medicao, valor_reajuste) ==
  [id |-> id, contrato_id |-> contrato_id,
   mes_indice_base |-> mes_indice_base,
   valor_indice_base |-> DecimalColumn(valor_indice_base).val,
   mes_indice_reajuste |-> mes_indice_reajuste,
   valor_indice_reajuste |-> DecimalColumn(valor_indice_reajuste).val,
   fator_k_aplicado |-> DecimalColumn(fator_k_aplicado).val,
   valor_original_medicao |-> DecimalColumn(valor_original_medicao).val,
   valor_reajuste |-> DecimalColumn(valor_reajuste).val]

\* the database: the committed rows of the three tables
EmptyDb == [indices |-> {}, contratos |-> {}, calculos |-> {}]

\* an Integer primary key in SQLite is the rowid: one more than the largest
\* in the table, 1 in an empty table
NextId(rows) ==
  IF rows = {} THEN 1
  ELSE (CHOOSE r \in rows : \A o \in rows : o.id <= r.id).id + 1

\* the outcome of a service call: the database it leaves and what it returns
\* or raises
Result(db, r) == [db |-> db, ret |-> r]

\* Decimal <= 0
NonPositive(d) == IsZero(d) \/ IsNegative(d)

(***************************************************************************)
(* src/services/index_service.py                                           *)
(***************************************************************************)
\* buscar_indice_por_data falling back on the latest reading before the date
buscar_indice_por_data_previous(db, data_referencia) ==
  LET before == {i \in db.indices :
                   ToOrdinal(i.data_referencia) <= ToOrdinal(data_referencia)}
  IN  IF before = {} THEN None
      ELSE CHOOSE i \in before :
             \A o \in before : ToOrdinal(o.data_referencia) <= ToOrdinal(i.data_referencia)

buscar_indice_por_data(db, data_referencia) ==
  IF \E i \in db.indices : i.data_referencia = data_referencia
  THEN CHOOSE i \in db.indices : i.data_referencia = data_referencia
  ELSE None

\* the INSERT of index rows under a primary key made of data_referencia and
\* nome_indice
IndicesInsert_composite_key(db, rows) ==
  IF \/ \E k \in 1..Len(rows) : \E i \in db.indices :
            /\ i.data_referencia = rows[k].data_referencia
            /\ i.nome_indice = rows[k].nome_indice
     \/ \E j, k \in 1..Len(rows) :
            /\ j # k /\ rows[j].data_referencia = rows[k].data_referencia
            /\ rows[j].nome_indice = rows[k].nome_indice
  THEN Raise("IntegrityError", "UNIQUE constraint failed", <<>>)
  ELSE Ok([db EXCEPT !.indices = @ \cup {rows[k] : k \in 1..Len(rows)}])

\* the INSERT of index rows at commit: data_referencia is the primary key
IndicesInsert(db, rows) ==
  IF \/ \E k \in 1..Len(rows) : \E i \in db.indices :
            i.data_referencia = rows[k].data_referencia
     \/ \E j, k \in 1..Len(rows) :
            j # k /\ rows[j].data_referencia = rows[k].data_referencia
  THEN Raise("IntegrityError", "UNIQUE constraint failed", <<>>)
  ELSE Ok([db EXCEPT !.indices = @ \cup {rows[k] : k \in 1..Len(rows)}])

criar_indice(db, data_referencia, nome_indice, valor) ==
  LET v == ensure_decimal(valor) IN
  IF ~IsOk(v) THEN Result(db, v)
  ELSE IF NonPositive(v.val)
       THEN Result(db, Raise("ValueError", "Index value must be positive, got", <<v.val>>))
  ELSE LET indice == IndiceEconomico(data_referencia, nome_indice, v.val)
           commit == IndicesInsert(db, <<indice>>)
       IN  IF IsOk(commit) THEN Result(commit.val, Ok(indice))
           ELSE Result(db, Raise("ValueError", "Index for date already exists",
                                 <<data_referencia>>))

atualizar_indice(db, data_referencia, novo_valor) ==
  LET v == ensure_decimal(novo_valor) IN
  IF ~IsOk(v) THEN Result(db, v)
  ELSE IF NonPositive(v.val)
       THEN Result(db, Raise("ValueError", "Index value must be positive, got", <<v.val>>))
  ELSE LET indice == buscar_indice_por_data(db, data_referencia) IN
       IF indice = None
       THEN Result(db, Raise("ValueError", "Index for date not found", <<data_referencia>>))
       ELSE LET novo == IndiceEconomico(indice.data_referencia, indice.nome_indice, v.val)
            IN  Result([db EXCEPT !.indices = (@ \ {indice}) \cup {novo}], Ok(novo))

deletar_indice(db, data_referencia) ==
  LET indice == buscar_indice_por_data(db, data_referencia) IN
  IF indice = None THEN Result(db, Ok(BoolV(FALSE)))
  ELSE Result([db EXCEPT !.indices = @ \ {indice}], Ok(BoolV(TRUE)))

(***************************************************************************)
(* src/services/seeding.py: seed_indices over the rows of the spreadsheet  *)
(* (NoFile when it is missing). A row is a date cell and a value cell.     *)
(***************************************************************************)
NoFile == [type |-> "missing"]
NaT == [y |-> 0, m |-> 0, d |-> 0]
NaN == [type |-> "nan"]

\* the Decimal of a value cell: a float goes through its text
SeedValor(valor_raw) ==
  IF valor_raw.type = "float" THEN ensure_decimal(StrV(FloatText(valor_raw)))
  ELSE ensure_decimal(valor_raw)

\* the rows seed_indices adds to the session: a valid date, a value that is
\* present and converts, and no INCC-DI reading stored for the date
SeedAdds(db, row) ==
  /\ row.data # NaT
  /\ row.valor # NaN
  /\ IsOk(SeedValor(row.valor))
  /\ ~\E i \in db.indices :
        i.data_referencia = row.data /\ i.nome_indice = "INCC-DI"

seed_indices(db, file) ==
  IF file = NoFile THEN Result(db, Ok(None))
  ELSE LET added == SelectSeq(file.rows, LAMBDA row : SeedAdds(db, row))
           novos == [k \in 1..Len(added) |->
                       IndiceEconomico(added[k].data, "INCC-DI",
                                       SeedValor(added[k].valor).val)]
           commit == IndicesInsert(db, novos)
       IN  IF IsOk(commit) THEN Result(commit.val, Ok(None)) ELSE Result(db, Ok(None))

(***************************************************************************)
(* src/services/contract_service.py. Texts are StrV values and an argument *)
(* left out of atualizar_contrato is None.                                 *)
(***************************************************************************)
RECURSIVE LStrip(_)
LStrip(s) == IF s # <<>> /\ s[1] = " " THEN LStrip(Tail(s)) ELSE s
RECURSIVE RStrip(_)
RStrip(s) == IF s # <<>> /\ s[Len(s)] = " " THEN RStrip(SubSeq(s, 1, Len(s) - 1)) ELSE s
Strip(s) == RStrip(LStrip(s))

buscar_contrato_por_id(db, contrato_id) ==
  IF \E c \in db.contratos : c.id = contrato_id
  THEN CHOOSE c \in db.contratos : c.id = contrato_id
  ELSE None

criar_contrato(db, numero_contrato, objeto, empresa, data_base_orcamento, data_assinatura, valor_inicial) ==
  LET v == ensure_decimal(valor_inicial) IN
  IF ~IsOk(v) THEN Result(db, v)
  ELSE IF NonPositive(v.val)
       THEN Result(db, Raise("ValueError", "Initial contract value must be positive, got",
                             <<v.val>>))
  ELSE IF Strip(numero_contrato.s) = <<>>
       THEN Result(db, Raise("ValueError", "Contract number cannot be empty", <<>>))
  ELSE IF Strip(empresa.s) = <<>>
       THEN Result(db, Raise("ValueError", "Company name cannot be empty", <<>>))
  ELSE LET contrato == Contrato(NextId(db.contratos), StrV(Strip(numero_contrato.s)),
                                StrV(Strip(objeto.s)), StrV(Strip(empresa.s)),
                                data_base_orcamento, data_assinatura, v.val)
       IN  IF \E c \in db.contratos : c.numero_contrato = contrato.numero_contrato
           THEN Result(db, Raise("ValueError", "Contract number already exists",
                                 <<numero_contrato>>))
           ELSE Result([db EXCEPT !.contratos = @ \cup {contrato}], Ok(contrato))

\* atualizar_contrato on a table without the UNIQUE constraint
atualizar_contrato_unchecked(db, contrato_id, numero_contrato, objeto, empresa, data_base_orcamento, data_assinatura, valor_inicial) ==
  LET contrato == buscar_contrato_por_id(db, contrato_id) IN
  IF contrato = None
  THEN Result(db, Raise("ValueError", "Contract with ID not found", <<contrato_id>>))
  ELSE IF numero_contrato # None /\ Strip(numero_contrato.s) = <<>>
       THEN Result(db, Raise("ValueError", "Contract number cannot be empty", <<>>))
  ELSE IF empresa # None /\ Strip(empresa.s) = <<>>
       THEN Result(db, Raise("ValueError", "Company name cannot be empty", <<>>))
  ELSE LET v == IF valor_inicial = None THEN Ok(None) ELSE ensure_decimal(valor_inicial) IN
       IF ~IsOk(v) THEN Result(db, v)
       ELSE IF valor_inicial # None /\ NonPositive(v.val)
            THEN Result(db, Raise("ValueError",
                                  "Initial contract value must be positive, got", <<v.val>>))
       ELSE LET novo ==
                  Contrato(contrato.id,
                    IF numero_contrato = None THEN contrato.numero_contrato
                    ELSE StrV(Strip(numero_contrato.s)),
                    IF objeto = None THEN contrato.objeto ELSE StrV(Strip(objeto.s)),
                    IF empresa = None THEN contrato.empresa ELSE StrV(Strip(empresa.s)),
                    IF data_base_orcamento = None THEN contrato.data_base_orcamento
                    ELSE data_base_orcamento,
                    IF data_assinatura = None THEN contrato.data_assinatura
                    ELSE data_assinatura,
                    IF valor_inicial = None THEN contrato.valor_inicial ELSE v.val)
            IN  IF FALSE
                THEN Result(db, Raise("ValueError",
                                      "Cannot update: contract number already exists",
                                      <<numero_contrato>>))
                ELSE Result([db EXCEPT !.contratos = (@ \ {contrato}) \cup {novo}], Ok(novo))

atualizar_contrato(db, contrato_id, numero_contrato, objeto, empresa, data_base_orcamento, data_assinatura, valor_inicial) ==
  LET contrato == buscar_contrato_por_id(db, contrato_id) IN
  IF contrato = None
  THEN Result(db, Raise("ValueError", "Contract with ID not found", <<contrato_id>>))
  ELSE IF numero_contrato # None /\ Strip(numero_contrato.s) = <<>>
       THEN Result(db, Raise("ValueError", "Contract number cannot be empty", <<>>))
  ELSE IF empresa # None /\ Strip(empresa.s) = <<>>
       THEN Result(db, Raise("ValueError", "Company name cannot be empty", <<>>))
  ELSE LET v == IF valor_inicial = None THEN Ok(None) ELSE ensure_decimal(valor_inicial) IN
       IF ~IsOk(v) THEN Result(db, v)
       ELSE IF valor_inicial # None /\ NonPositive(v.val)
            THEN Result(db, Raise("ValueError",
                                  "Initial contract value must be positive, got", <<v.val>>))
       ELSE LET novo ==
                  Contrato(contrato.id,
                    IF numero_contrato = None THEN contrato.numero_contrato
                    ELSE StrV(Strip(numero_contrato.s)),
                    IF objeto = None THEN contrato.objeto ELSE StrV(Strip(objeto.s)),
                    IF empresa = None THEN contrato.empresa ELSE StrV(Strip(empresa.s)),
                    IF data_base_orcamento = None THEN contrato.data_base_orcamento
                    ELSE data_base_orcamento,
                    IF data_assinatura = None THEN contrato.data_assinatura
                    ELSE data_assinatura,
                    IF valor_inicial = None THEN contrato.valor_inicial ELSE v.val)
            IN  IF \E c \in db.contratos :
                     c.id # contrato.id /\ c.numero_contrato = novo.numero_contrato
                THEN Result(db, Raise("ValueError",
                                      "Cannot update: contract number already exists",
                                      <<numero_contrato>>))
                ELSE Result([db EXCEPT !.contratos = (@ \ {contrato}) \cup {novo}], Ok(novo))

\* deletar_contrato deleting the calculations of the contract with it
deletar_contrato_cascade(db, contrato_id) ==
  LET contrato == buscar_contrato_por_id(db, contrato_id) IN
  IF contrato = None THEN Result(db, Ok(BoolV(FALSE)))
  ELSE Result([db EXCEPT !.contratos = @ \ {contrato},
                         !.calculos = {c \in @ : c.contrato_id # contrato_id}], Ok(BoolV(TRUE)))

deletar_contrato(db, contrato_id) ==
  LET contrato == buscar_contrato_por_id(db, contrato_id) IN
  IF contrato = None THEN Result(db, Ok(BoolV(FALSE)))
  ELSE Result([db EXCEPT !.contratos = @ \ {contrato}], Ok(BoolV(TRUE)))

(***************************************************************************)
(* src/services/contract_service.py in one session used for several calls. *)
(* atualizar_contrato assigns to the object of the session field by field  *)
(* and raises in between; nothing rolls the session back, so the fields    *)
(* assigned stay pending on the object until a commit flushes them, a      *)
(* rollback discards them or the session is closed. pend is the set of     *)
(* objects of the session that differ from their rows.                     *)
(***************************************************************************)
\* the contracts as the session holds them
InSession(db, pend) ==
  [db EXCEPT !.contratos =
     {IF \E p \in pend : p.id = c.id THEN CHOOSE p \in pend : p.id = c.id ELSE c : c \in @}]

\* lines 154-181: the object when atualizar_contrato raises, or before its commit
Assigned(contrato, numero_contrato, objeto, empresa, data_base_orcamento, data_assinatura, valor_inicial) ==
  LET c1 == IF numero_contrato = None THEN contrato
            ELSE [contrato EXCEPT !.numero_contrato = StrV(Strip(numero_contrato.s))]
      c2 == IF objeto = None THEN c1 ELSE [c1 EXCEPT !.objeto = StrV(Strip(objeto.s))]
      c3 == IF empresa = None THEN c2 ELSE [c2 EXCEPT !.empresa = StrV(Strip(empresa.s))]
      c4 == IF data_base_orcamento = None THEN c3
            ELSE [c3 EXCEPT !.data_base_orcamento = data_base_orcamento]
      c5 == IF data_assinatura = None THEN c4
            ELSE [c4 EXCEPT !.data_assinatura = data_assinatura]
  IN  IF numero_contrato # None /\ Strip(numero_contrato.s) = <<>> THEN contrato
      ELSE IF empresa # None /\ Strip(empresa.s) = <<>> THEN c2
      ELSE IF valor_inicial = None THEN c5
      ELSE IF ~IsOk(ensure_decimal(valor_inicial)) \/ NonPositive(ensure_decimal(valor_inicial).val)
           THEN c5
      ELSE [c5 EXCEPT !.valor_inicial = ensure_decimal(valor_inicial).val]

\* the objects pending once obj is as given
Pendente(db, pend, obj) ==
  {p \in pend : p.id # obj.id} \cup (IF obj \in db.contratos THEN {} ELSE {obj})

\* the UNIQUE constraint of numero_contrato
UniqueNumero(rows) == \A r1, r2 \in rows : r1.numero_contrato = r2.numero_contrato => r1 = r2

\* the UPDATEs of a flush, one statement per pending object in the order of
\* the ids; FALSE stands for the IntegrityError of a statement
RECURSIVE FlushUpdates(_, _, _)
FlushUpdates(rows, pend, id) ==
  IF pend = {} THEN [done |-> TRUE, rows |-> rows]
  ELSE IF \E p \in pend : p.id = id
       THEN LET p == CHOOSE q \in pend : q.id = id
                updated == {r \in rows : r.id # id} \cup {p}
            IN  IF UniqueNumero(updated) THEN FlushUpdates(updated, pend \ {p}, id + 1)
                ELSE [done |-> FALSE, rows |-> rows]
  ELSE FlushUpdates(rows, pend, id + 1)

SessionResult(ret, db, pend) == [ret |-> ret, db |-> db, pend |-> pend]

\* db.commit() of criar_contrato in the session: the pending UPDATEs, then the
\* INSERT; db.rollback() on IntegrityError
CriadoNaSessao(db, pend, numero_contrato, r, flushed) ==
  IF ~IsOk(r.ret)
  THEN IF r.ret.text = "Contract number already exists" THEN SessionResult(r.ret, db, {})
       ELSE SessionResult(r.ret, db, pend)
  ELSE IF flushed.done
       THEN SessionResult(r.ret, [db EXCEPT !.contratos = flushed.rows \cup {r.ret.val}], {})
       ELSE SessionResult(Raise("ValueError", "Contract number already exists",
                                <<numero_contrato>>), db, {})

criar_contrato_na_sessao(db, pend, a) ==
  CriadoNaSessao(db, pend, a[1],
                 criar_contrato(InSession(db, pend), a[1], a[2], a[3], a[4], a[5], a[6]),
                 FlushUpdates(db.contratos, pend, 1))

\* atualizar_contrato in the session: not found; a raise after some
\* assignments; or the commit, with db.rollback() on IntegrityError
AtualizadoNaSessao(db, pend, numero_contrato, contrato, r, pendente, flushed) ==
  IF contrato = None THEN SessionResult(r.ret, db, pend)
  ELSE IF ~IsOk(r.ret)
       THEN IF r.ret.text = "Cannot update: contract number already exists"
            THEN SessionResult(r.ret, db, {})
            ELSE SessionResult(r.ret, db, pendente)
  ELSE IF flushed.done
       THEN SessionResult(r.ret, [db EXCEPT !.contratos = flushed.rows], {})
       ELSE SessionResult(Raise("ValueError", "Cannot update: contract number already exists",
                                <<numero_contrato>>), db, {})

PendenteDe(db, pend, contrato, a) ==
  IF contrato = None THEN pend
  ELSE Pendente(db, pend, Assigned(contrato, a[2], a[3], a[4], a[5], a[6], a[7]))

atualizar_contrato_na_sessao(db, pend, a) ==
  AtualizadoNaSessao(db, pend, a[2], buscar_contrato_por_id(InSession(db, pend), a[1]),
    atualizar_contrato(InSession(db, pend), a[1], a[2], a[3], a[4], a[5], a[6], a[7]),
    PendenteDe(db, pend, buscar_contrato_por_id(InSession(db, pend), a[1]), a),
    FlushUpdates(db.contratos,
                 PendenteDe(db, pend, buscar_contrato_por_id(InSession(db, pend), a[1]), a), 1))

(***************************************************************************)
(* src/services/calculation.py: salvar_calculo                             *)
(***************************************************************************)
\* the CalculoRealizado object of lines 165-175, before the database gives it
\* an id (0); the first conversion that fails is the one raised
FirstFailure(rs) ==
  LET bad == {k \in 1..Len(rs) : ~IsOk(rs[k])}
  IN  IF bad = {} THEN 0 ELSE CHOOSE k \in bad : \A j \in bad : k <= j
Converted(contrato_id, mes_indice_base, mes_indice_reajuste, rs) ==
  IF FirstFailure(rs) # 0 THEN rs[FirstFailure(rs)]
  ELSE Ok(CalculoRealizado(0, contrato_id, mes_indice_base, rs[1].val,
                           mes_indice_reajuste, rs[2].val, rs[3].val, rs[4].val,
                           rs[5].val))
NovoCalculo(contrato_id, mes_indice_base, valor_indice_base, mes_indice_reajuste, valor_indice_reajuste, fator_k_aplicado, valor_original_medicao, valor_reajuste) ==
  Converted(contrato_id, mes_indice_base, mes_indice_reajuste,
            [k \in 1..5 |-> ensure_decimal(<<valor_indice_base, valor_indice_reajuste,
                                             fator_k_aplicado, valor_original_medicao,
                                             valor_reajuste>>[k])])

\* the INSERT of a calculation into the rows the connection sees
CalculosInsert(rows, calculo) == [calculo EXCEPT !.id = NextId(rows)]

\* lines 177-181: add, commit, refresh, return
Committed(db, calculo) ==
  IF ~IsOk(calculo) THEN Result(db, calculo)
  ELSE Result([db EXCEPT !.calculos = @ \cup {CalculosInsert(db.calculos, calculo.val)}],
              Ok(CalculosInsert(db.calculos, calculo.val)))

\* salvar_calculo computing K again from the two index values
Recomputed(given, k) == IF IsOk(k) THEN k.val ELSE given
salvar_calculo_recomputed(db, contrato_id, mes_indice_base, valor_indice_base, mes_indice_reajuste, valor_indice_reajuste, fator_k_aplicado, valor_original_medicao, valor_reajuste) ==
  Committed(db, NovoCalculo(contrato_id, mes_indice_base, valor_indice_base,
                            mes_indice_reajuste, valor_indice_reajuste,
                            Recomputed(fator_k_aplicado,
                                       calcular_fator_k_truncado(valor_indice_base,
                                                                 valor_indice_reajuste)),
                            valor_original_medicao, valor_reajuste))

salvar_calculo(db, contrato_id, mes_indice_base, valor_indice_base, mes_indice_reajuste, valor_indice_reajuste, fator_k_aplicado, valor_original_medicao, valor_reajuste) ==
  Committed(db, NovoCalculo(contrato_id, mes_indice_base, valor_indice_base,
                            mes_indice_reajuste, valor_indice_reajuste, fator_k_aplicado,
                            valor_original_medicao, valor_reajuste))

(***************************************************************************)
(* src/views/calculate.py: the calculation page, from the base index of    *)
(* the selected contract to the total of the periods. What the page shows  *)
(* is returned: the errors reported (st.error), the results of the periods *)
(* and the total, or the exception the page reports.                       *)
(***************************************************************************)
FirstOfMonth(dt) == Date(dt.y, dt.m, 1)

\* what the page shows: the errors reported so far; then either nothing more
\* (st.stop), or the exception the page caught, or the results and the total
NoExc == [kind |-> "none"]
NoResults(erros) ==
  Ok([stop |-> TRUE, erros |-> erros, resultados |-> <<>>, valor_total |-> None,
      exc |-> NoExc, relatorio |-> None])
Failed(erros, exc) ==
  Ok([stop |-> FALSE, erros |-> erros, resultados |-> <<>>, valor_total |-> None,
      exc |-> exc, relatorio |-> None])
Erro(periodo, erro, mes) == [periodo |-> periodo, erro |-> erro, mes |-> mes]

\* lines 257-268 of a period: R, the result of the period, the running total
Reajustado(acc, i, mes, indice_reajuste, fator_k, valor_reajuste) ==
  IF ~IsOk(valor_reajuste) THEN [acc EXCEPT !.exc = valor_reajuste]
  ELSE [acc EXCEPT
          !.resultados = Append(@, [periodo |-> i, mes_reajuste |-> mes,
                                    indice_reajuste |-> indice_reajuste,
                                    fator_k |-> fator_k,
                                    valor_reajuste |-> valor_reajuste.val]),
          !.total = BigAdd(@, valor_reajuste.val)]

\* the periods compounded: R of a period from Vr and the adjustments before it
Fatorado_compounding(acc, i, mes, indice_reajuste, valor_medicao, fator_k) ==
  IF ~IsOk(fator_k) THEN [acc EXCEPT !.exc = fator_k]
  ELSE Reajustado(acc, i, mes, indice_reajuste, fator_k.val,
                  calcular_valor_reajuste(BigAdd(valor_medicao, acc.total), fator_k.val))

\* lines 254-257 of a period: K, then R from the K computed
Fatorado(acc, i, mes, indice_reajuste, valor_medicao, fator_k) ==
  IF ~IsOk(fator_k) THEN [acc EXCEPT !.exc = fator_k]
  ELSE Reajustado(acc, i, mes, indice_reajuste, fator_k.val,
                  calcular_valor_reajuste(valor_medicao, fator_k.val))

\* lines 227-268: period i of the loop
Periodo(db, contrato, indice_base, valor_medicao, mes_reajuste, i, acc) ==
  LET mes_reajuste_normalizado == FirstOfMonth(mes_reajuste)
      indice_reajuste == buscar_indice_por_data(db, mes_reajuste_normalizado)
  IN  IF i = 1 /\ ~validar_intersticio_legal(contrato.data_base_orcamento,
                                             mes_reajuste).val[1]
      THEN [acc EXCEPT !.erros = Append(@, Erro(i, "intersticio", mes_reajuste))]
      ELSE IF indice_reajuste = None
      THEN [acc EXCEPT !.erros =
              Append(@, Erro(i, "indice nao encontrado", mes_reajuste_normalizado))]
      ELSE Fatorado(acc, i, mes_reajuste_normalizado, indice_reajuste, valor_medicao,
                    calcular_fator_k_truncado(indice_base.valor, indice_reajuste.valor))

\* the loop over the periods, from period i on; an exception ends it
RECURSIVE Periodos(_, _, _, _, _, _, _)
Periodos(db, contrato, indice_base, valor_medicao, meses_reajuste, i, acc) ==
  IF i > Len(meses_reajuste) \/ acc.exc # NoExc THEN acc
  ELSE Periodos(db, contrato, indice_base, valor_medicao, meses_reajuste, i + 1,
                Periodo(db, contrato, indice_base, valor_medicao, meses_reajuste[i], i,
                        acc))

\* lines 389-405: what the page passes to gerar_pdf_memoria_calculo, the
\* first result as the main calculation
Relatorio(valor_medicao, resultados) ==
  IF resultados = <<>> THEN None
  ELSE [type |-> "relatorio",
        mes_reajuste |-> resultados[1].mes_reajuste,
        indice_reajuste |-> resultados[1].indice_reajuste.valor,
        fator_k |-> resultados[1].fator_k,
        valor_medicao |-> valor_medicao,
        valor_reajuste |-> resultados[1].valor_reajuste,
        valor_total |-> BigAdd(valor_medicao, resultados[1].valor_reajuste)]

\* line 274 and what the page then shows
Totalizado(valor_medicao, acc, valor_total) ==
  IF ~IsOk(valor_total) THEN Failed(acc.erros, valor_total)
  ELSE Ok([stop |-> FALSE, erros |-> acc.erros, resultados |-> acc.resultados,
           valor_total |-> valor_total.val, exc |-> NoExc,
           relatorio |-> Relatorio(valor_medicao, acc.resultados)])

\* lines 270-274 and 418-421, after the loop
Calculado(valor_medicao, acc) ==
  IF acc.exc # NoExc THEN Failed(acc.erros, acc.exc)
  ELSE IF acc.erros # <<>> /\ acc.resultados = <<>> THEN NoResults(acc.erros)
  ELSE Totalizado(valor_medicao, acc,
                  calcular_valor_total_atualizado(valor_medicao, acc.total))

calcular_reajuste(db, contrato_id, valor_medicao, meses_reajuste) ==
  LET contrato == buscar_contrato_por_id(db, contrato_id)
      indice_base == buscar_indice_por_data(db, contrato.data_base_orcamento)
  IN  IF indice_base = None
      THEN NoResults(<<Erro(0, "indice base nao encontrado", contrato.data_base_orcamento)>>)
      ELSE IF NonPositive(valor_medicao)
      THEN NoResults(<<Erro(0, "valor deve ser maior que zero", NaT)>>)
      ELSE Calculado(valor_medicao,
                     Periodos(db, contrato, indice_base, valor_medicao, meses_reajuste, 1,
                              [erros |-> <<>>, resultados |-> <<>>, total |-> Dec(0, 0),
                               exc |-> NoExc]))

(***************************************************************************)
(* format_brazilian_currency (src/utils/decimal_utils.py) and              *)
(* parse_brazilian_currency (src/views/calculate.py). A text is a sequence *)
(* of characters.                                                          *)
(***************************************************************************)
\* "{:,}".format(n).replace(",", "."): the digits in groups of three
RECURSIVE Grouped(_)
Grouped(ds) ==
  IF Len(ds) <= 3 THEN DigitText(ds)
  ELSE Grouped(SubSeq(ds, 1, Len(ds) - 3)) \o <<".">>
         \o DigitText(SubSeq(ds, Len(ds) - 2, Len(ds)))

\* f"{value:.2f}" of a Decimal, split at the point: the sign, the digits of
\* the integer part and the two decimal digits, rounded as the context rounds
TwoPlaces(value) ==
  LET q == Rescale(value, CentPlaces, "ROUND_HALF_EVEN")
      padded == LeftPad(q.dig, CentPlaces + 1)
      n == Len(padded)
  IN  [neg |-> q.neg, int |-> StripLead(SubSeq(padded, 1, n - CentPlaces)),
       frac |-> SubSeq(padded, n - CentPlaces + 1, n)]

\* the integer part with its sign, as int(integer_part) prints it
SignedGrouped(neg, int) == (IF neg /\ ~AllZero(int) THEN <<"-">> ELSE <<>>) \o Grouped(int)

\* format_brazilian_currency without the thousands separators
format_brazilian_currency_ungrouped(value) ==
  IF value = None THEN Ok(StrV(<<"R", "$", " ", "0", ",", "0", "0">>))
  ELSE IF value.type = "int"
       THEN Ok(StrV(<<"R", "$", " ">> \o IntText(value.n) \o <<",", "0", "0">>))
  ELSE IF value.type = "Decimal"
       THEN Ok(StrV(<<"R", "$", " ">>
                      \o (IF TwoPlaces(value).neg /\ ~AllZero(TwoPlaces(value).int)
                          THEN <<"-">> ELSE <<>>)
                      \o DigitText(TwoPlaces(value).int)
                      \o <<",">> \o DigitText(TwoPlaces(value).frac)))
  ELSE Raise("ValueError", "Unknown format code 'f'", <<value.type>>)

\* a float is not among the values formatted here
format_brazilian_currency(value) ==
  IF value = None THEN Ok(StrV(<<"R", "$", " ", "0", ",", "0", "0">>))
  ELSE IF value.type = "int"
       THEN Ok(StrV(<<"R", "$", " ">> \o SignedGrouped(value.n < 0, DigitsOf(Abs(value.n)))
                      \o <<",", "0", "0">>))
  ELSE IF value.type = "Decimal"
       THEN Ok(StrV(<<"R", "$", " ">>
                      \o SignedGrouped(TwoPlaces(value).neg, TwoPlaces(value).int)
                      \o <<",">> \o DigitText(TwoPlaces(value).frac)))
  ELSE Raise("ValueError", "Unknown format code 'f'", <<value.type>>)

\* str.replace("R$", ""), str.replace(c, "") and str.replace(",", ".")
RECURSIVE WithoutRS(_)
WithoutRS(s) ==
  IF Len(s) < 2 THEN s
  ELSE IF s[1] = "R" /\ s[2] = "$" THEN WithoutRS(SubSeq(s, 3, Len(s)))
  ELSE <<s[1]>> \o WithoutRS(Tail(s))
Without(s, c) == SelectSeq(s, LAMBDA ch : ch # c)
CommaToPoint(s) == [i \in 1..Len(s) |-> IF s[i] = "," THEN "." ELSE s[i]]

\* Decimal(clean_str) inside the try of parse_brazilian_currency
ParsedClean(value_str, r) ==
  IF IsOk(r) THEN r ELSE Raise("ValueError", "Formato de valor invalido", <<value_str>>)

parse_brazilian_currency(value_str) ==
  IF value_str = None \/ value_str = StrV(<<>>)
  THEN Raise("ValueError", "Valor nao pode ser vazio", <<>>)
  ELSE ParsedClean(value_str,
         DecimalFromText(CommaToPoint(Without(Without(WithoutRS(value_str.s), " "), "."))))

(***************************************************************************)
(* The inputs of the model.                                                *)
(***************************************************************************)
SmallDecs == {Dec(c, e) : c \in (-3)..MaxCoef, e \in 0..MaxExp}

\* index readings of the tests: 105.4, 105.5, 105.0, 105.6, 100.0, 110.0, 110.5,
\* 105.4560, 106.2340
ExampleIndices ==
  {Dec(1054, 1), Dec(1055, 1), Dec(1050, 1), Dec(1056, 1), Dec(1000, 1), Dec(1100, 1),
   Dec(1105, 1), Dec(1054560, 4), Dec(1062340, 4), Dec(-100, 0), Dec(-105, 0)}

Chars == {"0", "1", "5", ".", "-", "+", "x"}
RECURSIVE Texts(_)
Texts(n) == IF n = 0 THEN {<<>>} ELSE LET T == Texts(n - 1) IN T \cup {Append(t, ch) : t \in T, ch \in Chars}

NonDecimals ==
  {IntV(100), IntV(0), IntV(-5), FloatV(1054, 1), FloatV(12345, 5), None, ListV,
   StrV(<<"1", "0", "5", ".", "4">>), StrV(<<"1", "0", "5", ".", "5">>), StrV(<<"x">>)}

IndexArgs == SmallDecs \cup ExampleIndices \cup NonDecimals

\* measurement values: 12345.67, 10000.00, 50000.00, -1000
Measurements ==
  SmallDecs \cup {Dec(1234567, 2), Dec(1000000, 2), Dec(5000000, 2), Dec(-1000, 0)}
               \cup NonDecimals
Factors ==
  {Dec(k, KPlaces) : k \in (-MaxCoef)..MaxCoef}
    \cup {Dec(9, 4), Dec(57, 4), Dec(1050, 4), Dec(1234, 4), Dec(-6667, 4), Dec(-10000, 4),
          Dec(1, 1), Dec(-15, 1)}
    \cup {FloatV(1, 1), StrV(<<"0", ".", "5">>)}

\* amounts: 10000.00, 9.00, 50000.00, 6170.00, 1000000.00, 105000.00
Amounts ==
  SmallDecs \cup {Dec(1000000, 2), Dec(900, 2), Dec(5000000, 2), Dec(617000, 2),
                  Dec(100000000, 2), Dec(10500000, 2), Dec(-1111, 2)}
            \cup {FloatV(900, 2), IntV(9)}

TruncCoefs == ((-MaxCoef)..MaxCoef) \cup {12349, 99999, 12345, 12348, 199999, 123456, 999999,
                                          -12349, -99999, -123456, 15000, 1234}
TruncArgs == {Dec(c, e) : c \in TruncCoefs, e \in 0..(KPlaces + 2)} \cup NonDecimals

EnsureArgs == {StrV(t) : t \in Texts(MaxStrLen)} \cup SmallDecs \cup NonDecimals
                \cup {IntV(n) : n \in (-3)..MaxCoef}

Dates == {dt \in [y : 2023..LastYear, m : 1..12, d : {1, 15, 28, 29, 30, 31}] :
            dt.d \in {1, 15, DaysInMonth(dt.y, dt.m)}}

\* the arguments of the service calls: readings of 100.0 and 110.5 for
\* 01/2024, 01/2025 and 15/01/2025, one contract, and a calculation of
\* K = 0.1050 and R = 105.00 on 1000.00 saved as computed or with another
\* K and R
SeqsUpTo(S, n) == UNION {[1..k -> S] : k \in 0..n}
Text100 == <<"1", "0", "0", ".", "0">>
IndexNames == {"INCC-DI", "IPCA"}
CriarIndiceArgs ==
  {<<Date(2024, 1, 1), n, v>> :
     n \in IndexNames, v \in {Dec(1000, 1), Dec(0, 0), FloatV(1105, 1), StrV(Text100)}}
    \cup {<<d, "INCC-DI", Dec(1105, 1)>> : d \in {Date(2025, 1, 1), Date(2025, 1, 15)}}
    \cup {<<Date(2024, 1, 15), "INCC-DI", Dec(1000, 1)>>}
AtualizarIndiceArgs ==
  {<<d, v>> : d \in {Date(2024, 1, 1), Date(2024, 6, 1)},
              v \in {Dec(1105, 1), Dec(-1000, 1), FloatV(1105, 1)}}
LookupDates == {Date(2024, 1, 1), Date(2024, 6, 1), Date(2025, 1, 1), Date(2025, 1, 15)}
SeedRows ==
  {[data |-> Date(2024, 1, 1), valor |-> FloatV(0, 1)],
   [data |-> Date(2025, 1, 1), valor |-> FloatV(1105, 1)],
   [data |-> NaT, valor |-> NaN]}
SeedFiles == {NoFile} \cup {[type |-> "xlsx", rows |-> r] : r \in SeqsUpTo(SeedRows, MaxRows)}

ContratoIds == {1, 2}
CriarContratoArgs ==
  {<<n, StrV(<<"o">>), e, b, Date(2024, 2, 1), v>> :
     n \in {StrV(<<" ", "7">>), StrV(<<" ">>)}, e \in {StrV(<<"E">>), StrV(<<>>)},
     b \in {Date(2024, 1, 1), Date(2024, 1, 15)}, v \in {Dec(100000, 2), Dec(0, 0)}}
    \cup {<<StrV(<<"8">>), StrV(<<"o">>), StrV(<<"E">>), Date(2024, 1, 1), Date(2024, 2, 1),
            FloatV(1000, 0)>>}
AtualizarContratoArgs ==
  {<<1, n, None, None, b, None, v>> :
     n \in {None, StrV(<<" ">>)}, b \in {None, Date(2024, 1, 15)},
     v \in {None, Dec(100000, 2), Dec(-1, 0)}}
    \cup {<<2, None, None, None, None, None, None>>,
          <<1, None, None, None, None, None, FloatV(1000, 0)>>}

FatorReajuste ==
  {<<Dec(1050, 4), Dec(10500, 2)>>, <<Dec(5, 1), Dec(1, 0)>>,
   <<StrV(<<"0", ".", "1", "0", "5", "0">>), Dec(10500, 2)>>,
   <<FloatV(105, 3), Dec(10500, 2)>>}
SalvarArgs ==
  {<<id, Date(2024, 1, 1), Dec(1000, 1), Date(2025, 1, 1), Dec(1105, 1), kr[1],
     Dec(100000, 2), kr[2]>> : id \in {1}, kr \in FatorReajuste}

TargetMonths == {Date(2025, 1, 15), Date(2024, 6, 1)}
CalcularArgs ==
  {<<vm, meses>> : vm \in {Dec(100000, 2), Dec(0, 0)},
                   meses \in SeqsUpTo(TargetMonths, 2) \ {<<>>}}

EngineValues == {Dec(1000, 1), FloatV(1105, 1)}
BindValues == EngineValues \cup {Dec(0, 0), IntV(5), None, ListV}

\* the browser sessions whose calls interleave
Sessions == {1, 2}

\* amounts to render: the examples of the tests, amounts between -1 and 1,
\* and amounts of up to MaxExp + 1 decimal digits on both sides of a half
CurrencyCoefs == ((-MaxCoef)..MaxCoef) \cup {50, -50, 99, -99, 100, -100, 995, -995, 1005, 1015,
                                             -1005, 2675, 123456, -123456, 100000000}
CurrencyAmounts ==
  {Dec(c, e) : c \in CurrencyCoefs, e \in 0..(MaxExp + 1)}
    \cup {Big(FALSE, <<1, 2, 3, 4, 5, 6, 7, 8, 9, 9, 9>>, -2), Big(TRUE, <<1, 2, 3, 4, 5, 6, 7, 8, 9, 9, 9>>, -2)}
    \cup {None, IntV(1234567), IntV(-5), IntV(0)}
\* texts to parse: what the input field holds after format_currency_input, and
\* texts typed otherwise
CurrencyTexts ==
  {format_brazilian_currency(v).val : v \in CurrencyAmounts}
    \cup {StrV(<<>>), None, StrV(<<"1", "0", ",", "5">>), StrV(<<"R", "$">>),
          StrV(<<"R", "$", " ", "1", ",", "2", ",", "3">>), StrV(<<"x">>),
          StrV(<<"R", "R", "$", "$", "5">>), StrV(<<"1", ".", "0", "0", "0">>)}

\* contracts of two numbers, written with and without blanks, and the values
\* criar_contrato and atualizar_contrato refuse
NumerosContrato == {StrV(<<"7">>), StrV(<<" ", "7">>), StrV(<<"8", " ">>), StrV(<<" ">>)}
ContratoArgs ==
  {<<n, StrV(<<"o">>), e, Date(2024, 1, 1), Date(2024, 2, 1), v>> :
     n \in NumerosContrato, e \in {StrV(<<"E">>), StrV(<<>>)},
     v \in {Dec(100000, 2), Dec(0, 0), Dec(-1, 0)}}
AlteracaoArgs ==
  {<<id, n, o, e, None, None, v>> :
     id \in ContratoIds, n \in NumerosContrato \cup {None}, o \in {None, StrV(<<"p">>)},
     e \in {None, StrV(<<>>)}, v \in {None, Dec(-1, 0)}}

\* the calls made in one session: two contracts, and updates that raise
\* before any assignment, after some, and at the commit
SessaoCriarArgs ==
  {<<n, StrV(<<"o">>), StrV(<<"E">>), Date(2024, 1, 1), Date(2024, 2, 1), v>> :
     n \in {StrV(<<"7">>), StrV(<<"8">>)}, v \in {Dec(100000, 2), Dec(0, 0)}}
SessaoAtualizarArgs ==
  {<<id, n, o, e, None, None, v>> :
     id \in ContratoIds, n \in {None, StrV(<<"8">>), StrV(<<"9">>), StrV(<<" ">>)},
     o \in {None, StrV(<<"p">>)}, e \in {None, StrV(<<>>)}, v \in {None, Dec(-1, 0)}}

(***************************************************************************)
(* The state: the call in progress and what it returned, the committed     *)
(* rows of the database, the rows inserted and not yet committed on the    *)
(* connection the sessions share, and where each interleaving session is.  *)
(***************************************************************************)
VARIABLES call, ret, db, txn, sessions
vars == <<call, ret, db, txn, sessions>>

NoCall == [fn |-> "none", args |-> <<>>]
NoRet == [kind |-> "none"]
NoSession == [pc |-> "idle", args |-> <<>>, calculo |-> None, ret |-> NoRet]

Init ==
  /\ call = NoCall /\ ret = NoRet
  /\ db = EmptyDb /\ txn = {}
  /\ sessions = [s \in Sessions |-> NoSession]

Idle == call = NoCall

Invoke(fn, args, result) ==
  /\ call' = [fn |-> fn, args |-> args]
  /\ ret' = result
  /\ UNCHANGED <<db, txn, sessions>>

Call_truncate_at_4_decimals ==
  /\ Idle
  /\ \E v \in TruncArgs :
       Invoke("truncate_at_4_decimals", <<v>>, truncate_at_4_decimals(v))

Call_truncate_at_2_decimals ==
  /\ Idle
  /\ \E v \in TruncArgs :
       Invoke("truncate_at_2_decimals", <<v>>, truncate_at_2_decimals(v))

Call_ensure_decimal ==
  /\ Idle
  /\ \E v \in EnsureArgs :
       Invoke("ensure_decimal", <<v>>, ensure_decimal(v))

Call_calcular_fator_k_truncado ==
  /\ Idle
  /\ \E i0 \in IndexArgs, i1 \in IndexArgs :
       Invoke("calcular_fator_k_truncado", <<i0, i1>>, calcular_fator_k_truncado(i0, i1))

Call_calcular_valor_reajuste ==
  /\ Idle
  /\ \E vr \in Measurements, k \in Factors :
       Invoke("calcular_valor_reajuste", <<vr, k>>, calcular_valor_reajuste(vr, k))

Call_calcular_valor_total_atualizado ==
  /\ Idle
  /\ \E vr \in Amounts, r \in Amounts :
       Invoke("calcular_valor_total_atualizado", <<vr, r>>,
           calcular_valor_total_atualizado(vr, r))

Call_validar_intersticio_legal ==
  /\ Idle
  /\ \E b \in Dates, t \in Dates :
       Invoke("validar_intersticio_legal", <<b, t>>, validar_intersticio_legal(b, t))

\* the caller takes the result (or the exception) and the engine is idle again
Return ==
  /\ call # NoCall
  /\ call' = NoCall
  /\ ret' = NoRet
  /\ UNCHANGED <<db, txn, sessions>>

Next ==
  \/ Call_truncate_at_4_decimals
  \/ Call_truncate_at_2_decimals
  \/ Call_ensure_decimal
  \/ Call_calcular_fator_k_truncado
  \/ Call_calcular_valor_reajuste
  \/ Call_calcular_valor_total_atualizado
  \/ Call_validar_intersticio_legal
  \/ Return

Spec == Init /\ [][Next]_vars

(***************************************************************************)
(* The services over the database, one call at a time.                     *)
(***************************************************************************)
Serve(fn, args, result) ==
  /\ call' = [fn |-> fn, args |-> args]
  /\ ret' = result.ret
  /\ db' = result.db
  /\ UNCHANGED <<txn, sessions>>

Do_criar_indice ==
  /\ Idle
  /\ \E a \in CriarIndiceArgs :
       Serve("criar_indice", a, criar_indice(db, a[1], a[2], a[3]))

Do_buscar_indice_por_data ==
  /\ Idle
  /\ \E d \in LookupDates :
       Serve("buscar_indice_por_data", <<d>>, Result(db, Ok(buscar_indice_por_data(db, d))))

Do_atualizar_indice ==
  /\ Idle
  /\ \E a \in AtualizarIndiceArgs :
       Serve("atualizar_indice", a, atualizar_indice(db, a[1], a[2]))

Do_deletar_indice ==
  /\ Idle
  /\ \E d \in LookupDates :
       Serve("deletar_indice", <<d>>, deletar_indice(db, d))

Do_seed_indices ==
  /\ Idle
  /\ \E f \in SeedFiles :
       Serve("seed_indices", <<f>>, seed_indices(db, f))

Do_criar_contrato ==
  /\ Idle
  /\ \E a \in CriarContratoArgs :
       Serve("criar_contrato", a, criar_contrato(db, a[1], a[2], a[3], a[4], a[5], a[6]))

Do_atualizar_contrato ==
  /\ Idle
  /\ \E a \in AtualizarContratoArgs :
       Serve("atualizar_contrato", a,
             atualizar_contrato(db, a[1], a[2], a[3], a[4], a[5], a[6], a[7]))

Do_deletar_contrato ==
  /\ Idle
  /\ \E id \in ContratoIds :
       Serve("deletar_contrato", <<id>>, deletar_contrato(db, id))

Do_salvar_calculo ==
  /\ Idle
  /\ Cardinality(db.calculos) < MaxCalculos
  /\ \E a \in SalvarArgs :
       Serve("salvar_calculo", a,
             salvar_calculo(db, a[1], a[2], a[3], a[4], a[5], a[6], a[7], a[8]))

\* the calculation page for a contract of the database
Do_calcular_reajuste ==
  /\ Idle
  /\ \E c \in db.contratos : \E a \in CalcularArgs :
       Serve("calcular_reajuste", <<c.id, a[1], a[2]>>,
             Result(db, calcular_reajuste(db, c.id, a[1], a[2])))

\* the engine and the column binding called between the services
Engine_ensure_decimal ==
  /\ Idle
  /\ \E v \in EngineValues :
       Invoke("ensure_decimal", <<v>>, ensure_decimal(v))

Engine_calcular_fator_k_truncado ==
  /\ Idle
  /\ \E i0 \in EngineValues, i1 \in EngineValues :
       Invoke("calcular_fator_k_truncado", <<i0, i1>>, calcular_fator_k_truncado(i0, i1))

Engine_calcular_valor_reajuste ==
  /\ Idle
  /\ \E vr \in EngineValues, k \in EngineValues :
       Invoke("calcular_valor_reajuste", <<vr, k>>, calcular_valor_reajuste(vr, k))

Engine_calcular_valor_total_atualizado ==
  /\ Idle
  /\ \E vr \in EngineValues, r \in EngineValues :
       Invoke("calcular_valor_total_atualizado", <<vr, r>>,
              calcular_valor_total_atualizado(vr, r))

Engine_process_bind_param ==
  /\ Idle
  /\ \E v \in BindValues :
       Invoke("process_bind_param", <<v>>, process_bind_param(v))

StoreNext ==
  \/ Do_criar_indice
  \/ Do_buscar_indice_por_data
  \/ Do_atualizar_indice
  \/ Do_deletar_indice
  \/ Do_seed_indices
  \/ Do_criar_contrato
  \/ Do_atualizar_contrato
  \/ Do_deletar_contrato
  \/ Do_salvar_calculo
  \/ Do_calcular_reajuste
  \/ Engine_ensure_decimal
  \/ Engine_calcular_fator_k_truncado
  \/ Engine_calcular_valor_reajuste
  \/ Engine_calcular_valor_total_atualizado
  \/ Engine_process_bind_param
  \/ Return

StoreSpec == Init /\ [][StoreNext]_vars

(***************************************************************************)
(* Two sessions in salvar_calculo at once. get_engine builds one engine    *)
(* with a StaticPool: every session works on the same SQLite connection,   *)
(* hence in the same transaction. db.commit() is three statements on that  *)
(* connection: the INSERT of the flush, the COMMIT, and the ROLLBACK with  *)
(* which the pool resets a connection given back to it; db.refresh() is a  *)
(* SELECT of the row by its id.                                            *)
(***************************************************************************)
At(s, pc) == sessions[s].pc = pc
Goto(s, pc, calculo, r) ==
  sessions' = [sessions EXCEPT ![s] = [@ EXCEPT !.pc = pc, !.calculo = calculo, !.ret = r]]

\* lines 165-177: the object is built and added to the session
Added(a, calculo) ==
  IF IsOk(calculo)
  THEN [pc |-> "flush", args |-> a, calculo |-> calculo.val, ret |-> NoRet]
  ELSE [pc |-> "done", args |-> a, calculo |-> None, ret |-> calculo]

Salvar_add ==
  \E s \in Sessions :
    /\ At(s, "idle")
    /\ \E a \in SalvarArgs :
         sessions' = [sessions EXCEPT ![s] =
           Added(a, NovoCalculo(a[1], a[2], a[3], a[4], a[5], a[6], a[7], a[8]))]
    /\ UNCHANGED <<call, ret, db, txn>>

\* line 178, the flush: INSERT on the shared connection
Salvar_flush ==
  \E s \in Sessions :
    /\ At(s, "flush")
    /\ LET row == CalculosInsert(db.calculos \cup txn, sessions[s].calculo)
       IN  /\ txn' = txn \cup {row}
           /\ Goto(s, "commit", row, NoRet)
    /\ UNCHANGED <<call, ret, db>>

\* line 178: COMMIT of the transaction of the shared connection
Salvar_commit ==
  \E s \in Sessions :
    /\ At(s, "commit")
    /\ db' = [db EXCEPT !.calculos = @ \cup txn]
    /\ txn' = {}
    /\ Goto(s, "release", sessions[s].calculo, NoRet)
    /\ UNCHANGED <<call, ret>>

\* line 178: the connection goes back to the pool, which rolls it back
Salvar_release ==
  \E s \in Sessions :
    /\ At(s, "release")
    /\ txn' = {}
    /\ Goto(s, "refresh", sessions[s].calculo, NoRet)
    /\ UNCHANGED <<call, ret, db>>

\* lines 179-181: the row is read again by its id and returned
Salvar_refresh ==
  \E s \in Sessions :
    /\ At(s, "refresh")
    /\ LET found == {r \in db.calculos \cup txn : r.id = sessions[s].calculo.id}
       IN  IF found # {}
           THEN LET row == CHOOSE r \in found : TRUE IN Goto(s, "done", row, Ok(row))
           ELSE Goto(s, "done", sessions[s].calculo,
                     Raise("InvalidRequestError", "Could not refresh instance", <<>>))
    /\ UNCHANGED <<call, ret, db, txn>>

ConcNext ==
  \/ Salvar_add
  \/ Salvar_flush
  \/ Salvar_commit
  \/ Salvar_release
  \/ Salvar_refresh

ConcSpec == Init /\ [][ConcNext]_vars


(***************************************************************************)
(* The rendering and the reading of amounts, one call at a time.           *)
(***************************************************************************)
Call_format_brazilian_currency ==
  /\ Idle
  /\ \E value \in CurrencyAmounts :
       Invoke("format_brazilian_currency", <<value>>, format_brazilian_currency(value))

Call_parse_brazilian_currency ==
  /\ Idle
  /\ \E value_str \in CurrencyTexts :
       Invoke("parse_brazilian_currency", <<value_str>>, parse_brazilian_currency(value_str))

TextNext ==
  \/ Call_format_brazilian_currency
  \/ Call_parse_brazilian_currency
  \/ Return

TextSpec == Init /\ [][TextNext]_vars

(***************************************************************************)
(* The contract service alone, one call at a time, each call in a session  *)
(* of its own.                                                             *)
(***************************************************************************)
Contrato_criar_contrato ==
  /\ Idle
  /\ \E a \in ContratoArgs :
       Serve("criar_contrato", a, criar_contrato(db, a[1], a[2], a[3], a[4], a[5], a[6]))

Contrato_atualizar_contrato ==
  /\ Idle
  /\ \E a \in AlteracaoArgs :
       Serve("atualizar_contrato", a,
             atualizar_contrato(db, a[1], a[2], a[3], a[4], a[5], a[6], a[7]))

Contrato_deletar_contrato ==
  /\ Idle
  /\ \E id \in ContratoIds :
       Serve("deletar_contrato", <<id>>, deletar_contrato(db, id))

ContractNext ==
  \/ Contrato_criar_contrato
  \/ Contrato_atualizar_contrato
  \/ Contrato_deletar_contrato
  \/ Return

ContractSpec == Init /\ [][ContractNext]_vars

(***************************************************************************)
(* The contract service in one session: the calls of one run of a page     *)
(* share the session of get_db(), which the page closes at its end. txn    *)
(* holds the objects of the session with assignments not yet flushed.      *)
(***************************************************************************)
InTheSession(fn, args, result) ==
  /\ call' = [fn |-> fn, args |-> args]
  /\ ret' = result.ret
  /\ db' = result.db
  /\ txn' = result.pend
  /\ UNCHANGED sessions

Sessao_criar_contrato ==
  /\ Idle
  /\ \E a \in SessaoCriarArgs :
       InTheSession("criar_contrato", a, criar_contrato_na_sessao(db, txn, a))

Sessao_atualizar_contrato ==
  /\ Idle
  /\ \E a \in SessaoAtualizarArgs :
       InTheSession("atualizar_contrato", a, atualizar_contrato_na_sessao(db, txn, a))

\* db.close() at the end of the page: what is pending is rolled back
Sessao_close ==
  /\ Idle
  /\ InTheSession("close", <<>>, SessionResult(Ok(None), db, {}))

SessionNext ==
  \/ Sessao_criar_contrato
  \/ Sessao_atualizar_contrato
  \/ Sessao_close
  \/ Return

SessionSpec == Init /\ [][SessionNext]_vars

(***************************************************************************)
(* Exact integer arithmetic on the arguments of a call, in which the       *)
(* properties are stated.                                                  *)
(***************************************************************************)
Coef(d) == (IF d.neg THEN -1 ELSE 1) * IntOf(d.dig)
Places(d) == -d.exp

\* floor(X * 10^n / D) and whether X * 10^n / D is an integer, for D > 0
RECURSIVE FloorScaled(_, _, _, _)
FloorScaled(q, r, D, n) ==
  IF n = 0 THEN q ELSE FloorScaled(q * 10 + (r * 10) \div D, (r * 10) % D, D, n - 1)
FloorTimesPow10(X, D, n) == FloorScaled(X \div D, X % D, D, n)
RECURSIVE RemScaled(_, _, _)
RemScaled(r, D, n) == IF n = 0 THEN r ELSE RemScaled((r * 10) % D, D, n - 1)
IsWholeTimesPow10(X, D, n) == RemScaled(X % D, D, n) = 0
\* X * 10^n / D truncated toward zero
TruncTimesPow10(X, D, n) ==
  IF X >= 0 THEN FloorTimesPow10(X, D, n) ELSE -FloorTimesPow10(-X, D, n)

\* I1 / I0 = RatioNum / RatioDen for I0 > 0, so that raw = (RatioNum - RatioDen) / RatioDen
RatioNum(i0, i1) == Coef(i1) * Pow10(Places(i0) - Places(i1))
RatioDen(i0, i1) == Coef(i0) * Pow10(Places(i1) - Places(i0))
RawNum(i0, i1) == RatioNum(i0, i1) - RatioDen(i0, i1)

CalledK == call.fn = "calcular_fator_k_truncado"
BothDecimal == Len(call.args) = 2 /\ IsDecimal(call.args[1]) /\ IsDecimal(call.args[2])

(***************************************************************************)
(* C1: for exact decimals I0 > 0 and I1 > 0, calcular_fator_k_truncado     *)
(* returns K with K x 10000 an integer, K <= I1/I0 - 1 and                 *)
(* (I1/I0 - 1) - K < 0.0001, that is K x 10000 = floor((I1/I0 - 1) x 10000);*)
(* (105.4, 105.5) gives 0.0009, (105.0, 105.6) gives 0.0057 and            *)
(* (100.0, 110.5) gives 0.1050.                                            *)
(***************************************************************************)
C1_FatorKNeverRoundedUp ==
  /\ (CalledK /\ BothDecimal /\ Coef(call.args[1]) > 0 /\ Coef(call.args[2]) > 0) =>
       /\ IsOk(ret) /\ IsDecimal(ret.val)
       /\ ret.val.exp = -KPlaces
       /\ Coef(ret.val) = FloorTimesPow10(RawNum(call.args[1], call.args[2]),
                                          RatioDen(call.args[1], call.args[2]), KPlaces)
  /\ (CalledK /\ call.args = <<Dec(1054, 1), Dec(1055, 1)>>) => ret = Ok(Dec(9, 4))
  /\ (CalledK /\ call.args = <<Dec(1050, 1), Dec(1056, 1)>>) => ret = Ok(Dec(57, 4))
  /\ (CalledK /\ call.args = <<Dec(1000, 1), Dec(1105, 1)>>) => ret = Ok(Dec(1050, 4))

\* a rising index whose raw quotient 0.005714... is not on the grid
C1_Witness ==
  /\ CalledK /\ call.args = <<Dec(1050, 1), Dec(1056, 1)>>
  /\ ret = Ok(Dec(57, 4))
  /\ ~IsWholeTimesPow10(RawNum(call.args[1], call.args[2]),
                        RatioDen(call.args[1], call.args[2]), KPlaces)

(***************************************************************************)
(* C2 (as stated): for I0 > 0 and I1 >= 0, a falling index included, K is  *)
(* the raw value truncated toward zero at 4 decimal digits: |K| <= |raw|   *)
(* and |raw| - |K| < 0.0001.                                               *)
(***************************************************************************)
C2_Original_TruncatedTowardZero ==
  (CalledK /\ BothDecimal /\ Coef(call.args[1]) > 0 /\ Coef(call.args[2]) >= 0) =>
    /\ IsOk(ret)
    /\ Coef(ret.val) = TruncTimesPow10(RawNum(call.args[1], call.args[2]),
                                       RatioDen(call.args[1], call.args[2]), KPlaces)

(***************************************************************************)
(* C2 (amended): for I0 > 0 and I1 >= 0, K is the raw value floored        *)
(* (toward negative infinity) at 4 decimal digits: K <= raw < K + 0.0001.  *)
(* For raw >= 0 that is truncation toward zero; for a negative raw that is *)
(* not a multiple of 0.0001, K is one unit of 0.0001 below the truncation  *)
(* toward zero, so |K| > |raw|.                                            *)
(***************************************************************************)
C2_FatorKFloored ==
  (CalledK /\ BothDecimal /\ Coef(call.args[1]) > 0 /\ Coef(call.args[2]) >= 0) =>
    LET X == RawNum(call.args[1], call.args[2])
        D == RatioDen(call.args[1], call.args[2])
        toward0 == TruncTimesPow10(X, D, KPlaces)
    IN  /\ IsOk(ret) /\ IsDecimal(ret.val) /\ ret.val.exp = -KPlaces
        /\ Coef(ret.val) = IF X < 0 /\ ~IsWholeTimesPow10(X, D, KPlaces)
                           THEN toward0 - 1 ELSE toward0

\* a falling index: I0 = 3, I1 = 1, raw = -0.6666..., K = -0.6667
C2_Witness ==
  /\ CalledK /\ call.args = <<Dec(3, 0), Dec(1, 0)>>
  /\ ret = Ok(Dec(-6667, 4))


\* floor(Vr * K * 10^n) and whether Vr * K * 10^n is an integer
ProductShift(v, k, n) == Places(v) + Places(k) - n
ProductFloor(v, k, n) ==
  LET sh == ProductShift(v, k, n)
      M == Pow10(sh)
  IN  IF sh <= 0 THEN Coef(v) * Coef(k) * Pow10(-sh)
      ELSE (Coef(v) \div M) * Coef(k) + ((Coef(v) % M) * Coef(k)) \div M
ProductWhole(v, k, n) ==
  LET sh == ProductShift(v, k, n)
      M == Pow10(sh)
  IN  sh <= 0 \/ ((Coef(v) % M) * Coef(k)) % M = 0
ProductNegative(v, k) == (Coef(v) < 0) # (Coef(k) < 0) /\ Coef(v) # 0 /\ Coef(k) # 0
ProductTrunc(v, k, n) ==
  IF ProductNegative(v, k) /\ ~ProductWhole(v, k, n)
  THEN ProductFloor(v, k, n) + 1 ELSE ProductFloor(v, k, n)

\* the same number, whatever the exponents
NumEq(a, b) ==
  LET e == Min(a.exp, b.exp)
      x == PadTo(a, e)
      y == PadTo(b, e)
  IN  x.dig = y.dig /\ (x.neg = y.neg \/ AllZero(x.dig))

CalledR == call.fn = "calcular_valor_reajuste"
CalledTotal == call.fn = "calcular_valor_total_atualizado"
DomainErrorVr ==
  ret = Raise("ValueError", "Measurement value (Vr) cannot be negative", <<>>)

(***************************************************************************)
(* C3: calcular_valor_reajuste(Vr, K) fails with a domain error if and     *)
(* only if Vr < 0; for Vr >= 0 and K >= 0 it returns R with R x 100 an     *)
(* integer and R <= Vr x K < R + 0.01; (12345.67, 0.0009) gives 11.11,     *)
(* (10000.00, 0.0009) gives 9.00 and K = 0 gives 0.00.                     *)
(***************************************************************************)
C3_ValorReajusteDomainAndFloor ==
  /\ (CalledR /\ BothDecimal) =>
       /\ DomainErrorVr <=> Coef(call.args[1]) < 0
       /\ ~IsOk(ret) <=> Coef(call.args[1]) < 0
  /\ (CalledR /\ BothDecimal /\ Coef(call.args[1]) >= 0 /\ Coef(call.args[2]) >= 0) =>
       /\ IsOk(ret) /\ IsDecimal(ret.val)
       /\ ret.val.exp = -CentPlaces
       /\ Coef(ret.val) = ProductFloor(call.args[1], call.args[2], CentPlaces)
       /\ Coef(call.args[2]) = 0 => Coef(ret.val) = 0
  /\ (CalledR /\ call.args = <<Dec(1234567, 2), Dec(9, 4)>>) => ret = Ok(Dec(1111, 2))
  /\ (CalledR /\ call.args = <<Dec(1000000, 2), Dec(9, 4)>>) => ret = Ok(Dec(900, 2))

\* the borderline product 12345.67 x 0.0009 = 11.111103
C3_Witness ==
  /\ CalledR /\ call.args = <<Dec(1234567, 2), Dec(9, 4)>>
  /\ ret = Ok(Dec(1111, 2))
  /\ ~ProductWhole(call.args[1], call.args[2], CentPlaces)

(***************************************************************************)
(* C4 (as stated): for every Vr >= 0 and every factor K accepted, a        *)
(* negative K included, R is Vr x K truncated toward zero at 2 decimal     *)
(* digits: |R| <= |Vr x K| and |Vr x K| - |R| < 0.01.                      *)
(***************************************************************************)
C4_Original_ReajusteTowardZero ==
  (CalledR /\ BothDecimal /\ Coef(call.args[1]) >= 0) =>
    /\ IsOk(ret)
    /\ Coef(ret.val) = ProductTrunc(call.args[1], call.args[2], CentPlaces)

(***************************************************************************)
(* C4 (amended): for every Vr >= 0 and every factor K accepted, R is       *)
(* Vr x K floored (toward negative infinity) at 2 decimal digits:          *)
(* R <= Vr x K < R + 0.01.  For a negative product that is not a whole     *)
(* number of cents, R is one cent below the truncation toward zero, so     *)
(* |R| > |Vr x K|.                                                         *)
(***************************************************************************)
C4_ReajusteFloored ==
  (CalledR /\ BothDecimal /\ Coef(call.args[1]) >= 0) =>
    LET vr == call.args[1]
        k == call.args[2]
    IN  /\ IsOk(ret) /\ IsDecimal(ret.val) /\ ret.val.exp = -CentPlaces
        /\ Coef(ret.val) = IF ProductNegative(vr, k) /\ ~ProductWhole(vr, k, CentPlaces)
                           THEN ProductTrunc(vr, k, CentPlaces) - 1
                           ELSE ProductTrunc(vr, k, CentPlaces)

\* Vr = 7, K = -0.0003: the product -0.0021 gives R = -0.01
C4_Witness ==
  /\ CalledR /\ call.args = <<Dec(7, 0), Dec(-3, 4)>>
  /\ ret = Ok(Dec(-1, 2))

(***************************************************************************)
(* C5: truncation is idempotent: for every exact decimal x, positive, zero *)
(* or negative, truncating the result of truncate_at_4_decimals(x) again   *)
(* returns the same result, and likewise for truncate_at_2_decimals; a     *)
(* value already on the grid is returned with the same numeric value.      *)
(***************************************************************************)
C5_TruncationIdempotent ==
  /\ (call.fn = "truncate_at_4_decimals" /\ IsDecimal(call.args[1])) =>
       /\ IsOk(ret) /\ IsDecimal(ret.val)
       /\ truncate_at_4_decimals(ret.val) = ret
       /\ Places(call.args[1]) <= KPlaces => NumEq(ret.val, call.args[1])
  /\ (call.fn = "truncate_at_2_decimals" /\ IsDecimal(call.args[1])) =>
       /\ IsOk(ret) /\ IsDecimal(ret.val)
       /\ truncate_at_2_decimals(ret.val) = ret
       /\ Places(call.args[1]) <= CentPlaces => NumEq(ret.val, call.args[1])

\* a negative value off the grid: truncate_at_4_decimals(-0.12349) = -0.1235,
\* and -0.1235 truncates to itself
C5_Witness ==
  /\ call.fn = "truncate_at_4_decimals" /\ call.args = <<Dec(-12349, 5)>>
  /\ ret = Ok(Dec(-1235, 4))
  /\ truncate_at_4_decimals(ret.val) = ret

(***************************************************************************)
(* C6: calcular_fator_k_truncado fails with a domain error and returns no  *)
(* K whenever I0 <= 0 or I1 < 0, and never fails when I0 > 0 and I1 >= 0;  *)
(* when I0 = 0 the error is 'cannot be zero' whatever the sign of I1, and  *)
(* when I0 # 0 and either index is negative it is 'must be positive'.      *)
(***************************************************************************)
C6_FatorKDomainErrors ==
  (CalledK /\ BothDecimal) =>
    LET i0 == Coef(call.args[1])
        i1 == Coef(call.args[2])
    IN  /\ (i0 <= 0 \/ i1 < 0) => Raises(ret, "ValueError")
        /\ (i0 > 0 /\ i1 >= 0) => IsOk(ret) /\ IsDecimal(ret.val)
        /\ i0 = 0 => ret.text = "Base index (I_0) cannot be zero"
        /\ (i0 # 0 /\ (i0 < 0 \/ i1 < 0)) => ret.text = "Indices must be positive values"

\* a zero base index with a negative final index
C6_Witness ==
  /\ CalledK /\ call.args = <<Dec(0, 0), Dec(-1, 0)>>
  /\ ret = Raise("ValueError", "Base index (I_0) cannot be zero", <<>>)

\* Vr + R = SumNum / 10^SumPlaces
SumPlaces(a, b) == Max(Places(a), Places(b))
SumNum(a, b) ==
  Coef(a) * Pow10(SumPlaces(a, b) - Places(a)) + Coef(b) * Pow10(SumPlaces(a, b) - Places(b))

(***************************************************************************)
(* C7: calcular_valor_total_atualizado(Vr, R) returns                      *)
(* truncate_at_2_decimals(Vr + R) for all exact decimals, with no domain   *)
(* check; when both have at most 2 decimal digits the result is Vr + R     *)
(* exactly (10000.00 + 9.00 = 10009.00, 1000000.00 + 105000.00 =           *)
(* 1105000.00).                                                            *)
(***************************************************************************)
C7_TotalIsTruncatedSum ==
  /\ (CalledTotal /\ BothDecimal) =>
       LET vr == call.args[1]
           r == call.args[2]
       IN  /\ IsOk(ret) /\ IsDecimal(ret.val) /\ ret.val.exp = -CentPlaces
           /\ Coef(ret.val) = FloorTimesPow10(SumNum(vr, r), Pow10(SumPlaces(vr, r)), CentPlaces)
           /\ (Places(vr) <= CentPlaces /\ Places(r) <= CentPlaces) =>
                Coef(ret.val) = Coef(vr) * Pow10(CentPlaces - Places(vr))
                                  + Coef(r) * Pow10(CentPlaces - Places(r))
  /\ (CalledTotal /\ call.args = <<Dec(1000000, 2), Dec(900, 2)>>) => ret = Ok(Dec(1000900, 2))
  /\ (CalledTotal /\ call.args = <<Dec(100000000, 2), Dec(10500000, 2)>>) =>
       ret = Ok(Dec(110500000, 2))

\* a negative measurement value is added like any other: -0.03 + 9.00 = 8.97
C7_Witness ==
  /\ CalledTotal /\ call.args = <<Dec(-3, 2), Dec(900, 2)>>
  /\ ret = Ok(Dec(897, 2))

\* the day number of a civil date, counted by eras of 400 years from 1 March
CivilDays(dt) ==
  LET y == IF dt.m <= 2 THEN dt.y - 1 ELSE dt.y
      era == y \div 400
      yoe == y - era * 400
      mp == IF dt.m > 2 THEN dt.m - 3 ELSE dt.m + 9
      doy == (153 * mp + 2) \div 5 + dt.d - 1
      doe == yoe * 365 + yoe \div 4 - yoe \div 100 + doy
  IN  era * 146097 + doe

(***************************************************************************)
(* C8: validar_intersticio_legal(base, target) returns valid = true if and *)
(* only if the whole-day difference d = target - base is at least 365      *)
(* (365 valid, 364 invalid, negative invalid), and in both outcomes the    *)
(* explanation carries exactly that day count d.                           *)
(***************************************************************************)
C8_IntersticioIff365 ==
  /\ call.fn = "validar_intersticio_legal" =>
       LET d == CivilDays(call.args[2]) - CivilDays(call.args[1])
       IN  /\ IsOk(ret)
           /\ ret.val[1] <=> d >= 365
           /\ ret.val[2].vals[1] = d
           /\ ret.val[2].text = IF d >= 365 THEN "Intersticio legal cumprido"
                                ELSE "Intersticio legal nao cumprido"
  /\ (call.fn = "validar_intersticio_legal"
        /\ call.args = <<Date(2023, 1, 1), Date(2023, 12, 31)>>) =>
       ~ret.val[1] /\ ret.val[2].vals[1] = 364
  /\ (call.fn = "validar_intersticio_legal"
        /\ call.args = <<Date(2024, 1, 1), Date(2023, 12, 31)>>) =>
       ~ret.val[1] /\ ret.val[2].vals[1] = -1

\* the boundary: 2023-01-01 to 2024-01-01 is 365 days
C8_Witness ==
  /\ call.fn = "validar_intersticio_legal"
  /\ call.args = <<Date(2023, 1, 1), Date(2024, 1, 1)>>
  /\ ret.val[1] /\ ret.val[2].vals[1] = 365

\* a decimal numeral: an optional sign, digits, and an optional point
\* followed by digits, with at least one digit; k is where the integer part ends
NumeralSplits(s) ==
  {k \in 0..Len(s) :
     LET sg == IF s # <<>> /\ s[1] \in {"-", "+"} THEN 1 ELSE 0
     IN  /\ k >= sg
         /\ \A i \in (sg + 1)..k : IsDigit(s[i])
         /\ (k = Len(s) \/ (s[k + 1] = "." /\ \A i \in (k + 2)..Len(s) : IsDigit(s[i])))
         /\ (k - sg) + (IF k = Len(s) THEN 0 ELSE Len(s) - k - 1) >= 1}
IsNumeral(s) == NumeralSplits(s) # {}
RECURSIVE NumeralDigits(_)
NumeralDigits(s) ==
  IF s = <<>> THEN 0
  ELSE LET n == Len(s)
           hi == NumeralDigits(SubSeq(s, 1, n - 1))
       IN  IF IsDigit(s[n]) THEN 10 * hi + DigitVal(s[n]) ELSE hi
NumeralCoef(s) == (IF s[1] = "-" THEN -1 ELSE 1) * NumeralDigits(s)
NumeralPlaces(s) ==
  LET k == CHOOSE k \in NumeralSplits(s) : TRUE
  IN  IF k = Len(s) THEN 0 ELSE Len(s) - k - 1

CalledTruncate == call.fn \in {"truncate_at_4_decimals", "truncate_at_2_decimals"}

Carries(r, v) == r.kind = "raise" /\ \E i \in 1..Len(r.vals) : r.vals[i] = v

C18_Original_DomainErrorCarriesValue ==
  /\ (CalledK /\ BothDecimal /\ Coef(call.args[1]) <= 0) => Carries(ret, call.args[1])
  /\ (CalledK /\ BothDecimal /\ Coef(call.args[1]) > 0 /\ Coef(call.args[2]) < 0) =>
       Carries(ret, call.args[2])
  /\ (CalledR /\ BothDecimal /\ Coef(call.args[1]) < 0) => Carries(ret, call.args[1])

(***************************************************************************)
(* C18, amended: each of these domain errors reaches the caller as the     *)
(* ValueError the function raised, whose message names the violated rule   *)
(* and carries no input value; no result is returned in its place.         *)
(***************************************************************************)
C18_DomainErrorNamesRuleOnly ==
  /\ (CalledK /\ BothDecimal /\ (Coef(call.args[1]) <= 0 \/ Coef(call.args[2]) < 0)) =>
       /\ Raises(ret, "ValueError") /\ ret.vals = <<>>
       /\ ret.text \in {"Base index (I_0) cannot be zero", "Indices must be positive values"}
  /\ (CalledR /\ BothDecimal /\ Coef(call.args[1]) < 0) =>
       /\ Raises(ret, "ValueError") /\ ret.vals = <<>>
       /\ ret.text = "Measurement value (Vr) cannot be negative"

\* a negative final index, and a negative measurement
C18_Witness ==
  \/ /\ CalledK /\ call.args = <<Dec(1000, 1), Dec(-100, 0)>>
     /\ ret = Raise("ValueError", "Indices must be positive values", <<>>)
  \/ /\ CalledR /\ call.args = <<Dec(-1000, 0), Dec(9, 4)>>
     /\ ret = Raise("ValueError", "Measurement value (Vr) cannot be negative", <<>>)

(***************************************************************************)
(* C20: for every pair that calcular_fator_k_truncado accepts (I0 > 0,     *)
(* I1 >= 0) the returned K satisfies K >= -1, and K = -1.0000 exactly when *)
(* I1 = 0.                                                                 *)
(***************************************************************************)
AcceptedK == CalledK /\ BothDecimal /\ Coef(call.args[1]) > 0 /\ Coef(call.args[2]) >= 0
MinusOne == -Pow10(KPlaces)

C20_Original_MinusOneOnlyForZeroFinal ==
  AcceptedK =>
    /\ IsOk(ret) /\ Places(ret.val) = KPlaces /\ Coef(ret.val) >= MinusOne
    /\ Coef(ret.val) = MinusOne <=> Coef(call.args[2]) = 0

(***************************************************************************)
(* C20, amended: for every accepted pair K >= -1, and K = -1.0000 exactly  *)
(* when I1 * 10^4 < I0, which includes I1 = 0 and every positive I1 below  *)
(* a ten-thousandth of I0.                                                 *)
(***************************************************************************)
C20_MinusOneBelowTenThousandth ==
  AcceptedK =>
    LET N == RatioNum(call.args[1], call.args[2])
        D == RatioDen(call.args[1], call.args[2])
    IN  /\ IsOk(ret) /\ Places(ret.val) = KPlaces /\ Coef(ret.val) >= MinusOne
        /\ Coef(ret.val) = MinusOne <=> N <= (D - 1) \div Pow10(KPlaces)

\* I0 = 110.5 and I1 = 0.01: the raw factor is -0.99990950..., K is -1.0000
C20_Witness ==
  /\ CalledK /\ call.args = <<Dec(1105, 1), Dec(1, 2)>>
  /\ ret = Ok(Dec(-10000, 4))

(***************************************************************************)
(* The audit log of calculations (StoreSpec).                              *)
(***************************************************************************)
\* a call of fn made in this step
Called(fn) == call = NoCall /\ call'.fn = fn

\* the stored decimal is the argument: the same Decimal, or the decimal a
\* text argument spells
Supplied(stored, arg) ==
  IF arg.type = "Decimal" THEN stored = arg ELSE StrV(DecimalText(stored)) = arg

\* C11: a salvar_calculo that succeeds adds exactly one record, with an
\* identifier no record had, whose months, index values, K, measurement and R
\* are the arguments of the caller, and changes nothing else
C11_SalvarAddsOneRecordAsSupplied ==
  [][Called("salvar_calculo") /\ IsOk(ret') =>
       LET a == call'.args
           r == ret'.val
       IN  /\ db'.calculos = db.calculos \cup {r}
           /\ r.id \notin {c.id : c \in db.calculos}
           /\ r.contrato_id = a[1]
           /\ r.mes_indice_base = a[2] /\ r.mes_indice_reajuste = a[4]
           /\ Supplied(r.valor_indice_base, a[3])
           /\ Supplied(r.valor_indice_reajuste, a[5])
           /\ Supplied(r.fator_k_aplicado, a[6])
           /\ Supplied(r.valor_original_medicao, a[7])
           /\ Supplied(r.valor_reajuste, a[8])
           /\ db'.indices = db.indices /\ db'.contratos = db.contratos]_vars

\* a record was saved whose values another record already had, with a K that
\* is not the K of its two index values
C11_Witness ==
  /\ call.fn = "salvar_calculo" /\ IsOk(ret)
  /\ \E c \in db.calculos : c.id # ret.val.id /\ [c EXCEPT !.id = ret.val.id] = ret.val
  /\ ret.val.fator_k_aplicado
       # calcular_fator_k_truncado(ret.val.valor_indice_base,
                                   ret.val.valor_indice_reajuste).val

\* C12: every step keeps every saved calculation as it is, and only
\* salvar_calculo changes the set of saved calculations
C12_AuditLogAppendOnly ==
  [][/\ \A c \in db.calculos : c \in db'.calculos
     /\ db'.calculos # db.calculos => Called("salvar_calculo")]_vars

\* an index was updated after a calculation was saved with its earlier value
C12_Witness ==
  /\ call.fn = "atualizar_indice" /\ IsOk(ret)
  /\ \E c \in db.calculos :
       /\ c.mes_indice_base = ret.val.data_referencia
       /\ c.valor_indice_base # ret.val.valor

(***************************************************************************)
(* Two salvar_calculo calls at once (ConcSpec).                            *)
(***************************************************************************)
\* the session made its call with values that convert, and the call is over
Finished(s) == At(s, "done") /\ sessions[s].calculo # None

\* the record of session s: the values of its own caller under its own id
OwnRecord(s) ==
  LET a == sessions[s].args
      r == sessions[s].ret.val
  IN  /\ r \in db.calculos
      /\ r.contrato_id = a[1]
      /\ r.mes_indice_base = a[2] /\ r.mes_indice_reajuste = a[4]
      /\ Supplied(r.valor_indice_base, a[3])
      /\ Supplied(r.valor_indice_reajuste, a[5])
      /\ Supplied(r.fator_k_aplicado, a[6])
      /\ Supplied(r.valor_original_medicao, a[7])
      /\ Supplied(r.valor_reajuste, a[8])

\* C13: when two interleaved salvar_calculo calls are over, both returned a
\* record, the two records are distinct and in the database, and each holds
\* the values of its own caller
C13_InterleavedSavesBothKept ==
  (\A s \in Sessions : Finished(s)) =>
     /\ \A s \in Sessions : IsOk(sessions[s].ret) /\ OwnRecord(s)
     /\ \A s, t \in Sessions : s # t => sessions[s].ret.val.id # sessions[t].ret.val.id
     /\ Cardinality(db.calculos) = Cardinality(Sessions)

(***************************************************************************)
(* The index readings (StoreSpec).                                         *)
(***************************************************************************)
\* C14: after every step every stored index reading has a value above zero,
\* and criar_indice and atualizar_indice called with a value of zero or less
\* fail and leave the database as it was
C14_StoredIndexValuesPositive ==
  [][/\ \A i \in db'.indices : ~NonPositive(i.valor)
     /\ \A fn \in {"criar_indice", "atualizar_indice"} :
          Called(fn) /\ call'.args[Len(call'.args)].type = "Decimal"
            /\ NonPositive(call'.args[Len(call'.args)]) => ~IsOk(ret') /\ db' = db]_vars

\* C15: every stored index reading is dated the first day of its month, and
\* a reading created for a date is returned when the month of that date is
\* looked up
C15_ReadingsNormalizedToFirstOfMonth ==
  /\ \A i \in db.indices : i.data_referencia = FirstOfMonth(i.data_referencia)
  /\ call.fn = "criar_indice" /\ IsOk(ret) =>
       buscar_indice_por_data(db, FirstOfMonth(call.args[1])) = ret.val

\* the value converts to a decimal above zero
PositiveValue(v) == IsOk(ensure_decimal(v)) /\ ~NonPositive(ensure_decimal(v).val)

\* C16 as stated: no two stored readings have the same date and index name,
\* and criar_indice with a positive value fails exactly when a reading with
\* the same date and index name is stored
C16_Original_KeyedByDateAndName ==
  [][/\ \A i, j \in db'.indices :
          i.data_referencia = j.data_referencia /\ i.nome_indice = j.nome_indice => i = j
     /\ Called("criar_indice") /\ PositiveValue(call'.args[3]) =>
          (~IsOk(ret') <=> \E i \in db.indices : /\ i.data_referencia = call'.args[1]
                                                 /\ i.nome_indice = call'.args[2])]_vars

\* C16: no two stored readings have the same reference date, and criar_indice
\* with a positive value fails exactly when a reading with the same reference
\* date is stored, whatever its index name
C16_KeyedByDateAlone ==
  [][/\ \A i, j \in db'.indices : i.data_referencia = j.data_referencia => i = j
     /\ Called("criar_indice") /\ PositiveValue(call'.args[3]) =>
          (~IsOk(ret') <=> \E i \in db.indices : i.data_referencia = call'.args[1])]_vars

\* criar_indice failed for a date stored under another index name
C16_Witness ==
  /\ call.fn = "criar_indice" /\ PositiveValue(call.args[3]) /\ ~IsOk(ret)
  /\ \E i \in db.indices : i.data_referencia = call.args[1]
  /\ \A i \in db.indices :
       i.data_referencia = call.args[1] => i.nome_indice # call.args[2]

(***************************************************************************)
(* The calculation page (StoreSpec).                                       *)
(***************************************************************************)
Page == call.fn = "calcular_reajuste"
PageContrato == CHOOSE c \in db.contratos : c.id = call.args[1]
Meses == call.args[3]
HasReading(d) == \E i \in db.indices : i.data_referencia = d
BaseMissing ==
  NoResults(<<Erro(0, "indice base nao encontrado", PageContrato.data_base_orcamento)>>)
ValueRefused == NoResults(<<Erro(0, "valor deve ser maior que zero", NaT)>>)
\* the page reported the error for period k, and computed nothing for it
Reported(k, erro) ==
  /\ \E j \in 1..Len(ret.val.erros) :
       ret.val.erros[j] = Erro(k, erro, IF erro = "intersticio" THEN Meses[k]
                                        ELSE FirstOfMonth(Meses[k]))
  /\ \A j \in 1..Len(ret.val.resultados) : ret.val.resultados[j].periodo # k
\* every result of the page is computed from the reading stored for exactly
\* the month of its period
NoSubstitution ==
  \A j \in 1..Len(ret.val.resultados) :
    LET r == ret.val.resultados[j]
    IN  /\ r.indice_reajuste \in db.indices
        /\ r.indice_reajuste.data_referencia = FirstOfMonth(Meses[r.periodo])
        /\ r.mes_reajuste = FirstOfMonth(Meses[r.periodo])

DecimalArgs(c) ==
  CASE c.fn = "ensure_decimal" -> {c.args[1]}
    [] c.fn \in {"calcular_fator_k_truncado", "calcular_valor_reajuste",
                 "calcular_valor_total_atualizado"} -> {c.args[1], c.args[2]}
    [] c.fn = "criar_indice" -> {c.args[3]}
    [] c.fn = "atualizar_indice" -> {c.args[2]}
    [] c.fn = "criar_contrato" -> {c.args[6]}
    [] c.fn = "atualizar_contrato" -> {c.args[7]}
    [] c.fn = "salvar_calculo" -> {c.args[3], c.args[5], c.args[6], c.args[7], c.args[8]}
    [] c.fn = "process_bind_param" -> {c.args[1]}
    [] c.fn = "seed_indices" /\ c.args[1] # NoFile ->
         {c.args[1].rows[k].valor : k \in 1..Len(c.args[1].rows)}
    [] OTHER -> {}
FloatGiven(c) == \E v \in DecimalArgs(c) : v.type = "float"

\* the functions that convert their arguments with ensure_decimal
ThroughEnsureDecimal ==
  {"ensure_decimal", "calcular_fator_k_truncado", "calcular_valor_reajuste",
   "calcular_valor_total_atualizado", "criar_indice", "atualizar_indice",
   "criar_contrato", "atualizar_contrato", "salvar_calculo"}

\* the rows of the spreadsheet that seed_indices is to add to the readings
SeedFloatRows(rows, indices) ==
  {k \in 1..Len(rows) : /\ rows[k].data # NaT /\ rows[k].valor.type = "float"
                        /\ \A i \in indices : i.data_referencia # rows[k].data}

\* C19 as stated: whatever is called with a float fails with a type error
C19_Original_FloatAlwaysRejected ==
  FloatGiven(call) => ~IsOk(ret) /\ ret.exc = "TypeError"

\* C19: a float handed to ensure_decimal is refused with a type error, and a
\* formula or service called with a float fails and stores nothing; but the
\* column binding turns a float into the decimal its text spells, and
\* seed_indices stores the decimal that the text of a float cell spells
C19_FloatRejectedUnlessThroughText ==
  [][call = NoCall /\ FloatGiven(call') =>
       /\ call'.fn \in ThroughEnsureDecimal => ~IsOk(ret') /\ db' = db
       /\ call'.fn = "ensure_decimal" =>
            ret' = Raise("TypeError", "Cannot convert float to Decimal directly",
                         <<call'.args[1]>>)
       /\ call'.fn = "process_bind_param" => ret' = Ok(StrV(FloatText(call'.args[1])))
       /\ call'.fn = "seed_indices" =>
            LET rows == call'.args[1].rows
                added == db'.indices \ db.indices
            IN  /\ \A i \in added :
                     \E k \in SeedFloatRows(rows, db.indices) :
                       /\ i.data_referencia = rows[k].data
                       /\ DecimalText(i.valor) = FloatText(rows[k].valor)
                /\ Len(rows) = 1 /\ SeedFloatRows(rows, db.indices) # {} => added # {}]_vars

\* seed_indices stored the reading 0.0 from a float cell of its spreadsheet
C19_Witness ==
  /\ call.fn = "seed_indices" /\ FloatGiven(call)
  /\ \E i \in db.indices : i.valor = Dec(0, 1)

(***************************************************************************)
(* The text of a rendered amount, read back character by character.        *)
(***************************************************************************)
CalledFormat == call.fn = "format_brazilian_currency"
Rendered == ret.val.s
AfterPrefix == SubSeq(Rendered, 4, Len(Rendered))
Unsigned == IF AfterPrefix # <<>> /\ AfterPrefix[1] = "-" THEN Tail(AfterPrefix) ELSE AfterPrefix
IntegerText == SubSeq(Unsigned, 1, Len(Unsigned) - 3)
FractionText == SubSeq(Unsigned, Len(Unsigned) - 1, Len(Unsigned))
AllDigits(t) == \A i \in 1..Len(t) : IsDigit(t[i])
RECURSIVE InThrees(_)
InThrees(t) ==
  IF Len(t) <= 3 THEN Len(t) >= 1 /\ AllDigits(t)
  ELSE /\ t[Len(t) - 3] = "."
       /\ AllDigits(SubSeq(t, Len(t) - 2, Len(t)))
       /\ InThrees(SubSeq(t, 1, Len(t) - 4))
WellFormedAmount ==
  /\ IsOk(ret) /\ ret.val.type = "str"
  /\ Len(Rendered) >= 7
  /\ SubSeq(Rendered, 1, 3) = <<"R", "$", " ">>
  /\ Len(Unsigned) >= 4
  /\ Unsigned[Len(Unsigned) - 2] = ","
  /\ Len(FractionText) = CentPlaces /\ AllDigits(FractionText)
  /\ InThrees(IntegerText)
  /\ (IntegerText[1] # "0" \/ Len(IntegerText) = 1)
\* the digits of the text, without the separators
RenderedDigits ==
  LET t == Without(IntegerText, ".") \o FractionText
  IN  StripLead([i \in 1..Len(t) |-> DigitVal(t[i])])
\* the digits of |v| in hundredths, for v of at most 2 decimal digits
Hundredths(v) ==
  IF v.type = "int" THEN StripLead(DigitsOf(Abs(v.n)) \o Zeros(CentPlaces))
  ELSE StripLead(v.dig \o Zeros(CentPlaces + v.exp))
AtMostTwoDecimals(v) == v.type = "int" \/ (v.type = "Decimal" /\ v.exp >= -CentPlaces)
BelowZero(v) == IF v.type = "int" THEN v.n < 0 ELSE v.neg /\ ~AllZero(v.dig)

SameAmount(a, b) ==
  LET e == Min(a.exp, b.exp)
      x == PadTo(a, e)
      y == PadTo(b, e)
  IN  StripLead(x.dig) = StripLead(y.dig) /\ (x.neg = y.neg \/ AllZero(x.dig))
ExactlyTwoDecimals(v) == v.type = "Decimal" /\ v.exp = -CentPlaces
ReadBackAmount == parse_brazilian_currency(ret.val)

C30_RoundTrip ==
  (CalledFormat /\ ExactlyTwoDecimals(call.args[1])) =>
    /\ IsOk(ReadBackAmount)
    /\ SameAmount(ReadBackAmount.val, call.args[1])

(***************************************************************************)
(* C27: calcular_fator_k_truncado is monotone: for a fixed I0 > 0 it is    *)
(* non-decreasing in I1 >= 0 and for a fixed I1 >= 0 it is non-increasing  *)
(* in I0 > 0; K >= 0 if and only if I1 >= I0, and K = 0.0000 when I1 = I0. *)
(***************************************************************************)
\* a <= b, exactly
AtMost(a, b) == Coef(a) * Pow10(Places(b) - Places(a)) <= Coef(b) * Pow10(Places(a) - Places(b))
OtherIndices == {j \in IndexArgs : IsDecimal(j) /\ ~IsNegative(j)}
KOf(i0, i1) == Coef(calcular_fator_k_truncado(i0, i1).val)

C27_KMonotone ==
  (CalledK /\ BothDecimal /\ IsOk(ret)) =>
    LET i0 == call.args[1]
        i1 == call.args[2]
    IN  /\ \A j \in OtherIndices : AtMost(i1, j) => Coef(ret.val) <= KOf(i0, j)
        /\ \A j \in OtherIndices : (~IsZero(j) /\ AtMost(i0, j)) => KOf(j, i1) <= Coef(ret.val)
        /\ Coef(ret.val) >= 0 <=> AtMost(i0, i1)
        /\ (AtMost(i0, i1) /\ AtMost(i1, i0)) => ret.val = Big(FALSE, <<0>>, -KPlaces)

\* a fall of the index below the base, next to a smaller fall
C27_Witness ==
  /\ CalledK /\ IsOk(ret)
  /\ call.args = <<Dec(1055, 1), Dec(1054, 1)>>
  /\ Coef(ret.val) < 0
  /\ KOf(Dec(1055, 1), Dec(1050, 1)) < Coef(ret.val)

(***************************************************************************)
(* The 365 days of the first adjustment on the calculation page            *)
(* (StoreSpec).                                                            *)
(***************************************************************************)
DaysAfterBase(d) == ToOrdinal(d) - ToOrdinal(PageContrato.data_base_orcamento)
FirstPeriodRefused ==
  ~validar_intersticio_legal(PageContrato.data_base_orcamento, Meses[1]).val[1]

(***************************************************************************)
(* C22 (as stated): whenever a run of the page over one or more periods    *)
(* yields a result, the first result has a reference date at least 365     *)
(* days after the data_base_orcamento of the contract, and a run whose     *)
(* period 1 fails the interval check yields no result.                     *)
(***************************************************************************)
C22_FirstAdjustmentAfter365Days ==
  Page =>
    /\ ret.val.resultados # <<>> =>
         DaysAfterBase(ret.val.resultados[1].mes_reajuste) >= MinIntersticio
    /\ FirstPeriodRefused => ret.val.resultados = <<>>

(***************************************************************************)
(* C23 (as stated): the contrato_id of every stored CalculoRealizado is a  *)
(* foreign-key reference: in every reachable state, after any sequence of  *)
(* criar_contrato, deletar_contrato and salvar_calculo, the contrato_id of *)
(* each stored record is the id of a stored contract.                      *)
(***************************************************************************)
C23_ContratoIdReferencesContract ==
  \A r \in db.calculos : \E c \in db.contratos : c.id = r.contrato_id

(***************************************************************************)
(* C25 (as stated): for every result of period 1 the month whose reading   *)
(* is used as I1, the selected date moved to the first day of its month,   *)
(* is itself at least 365 days after the data_base_orcamento: the date     *)
(* checked by validar_intersticio_legal and the month of the lookup never  *)
(* disagree about the interval.                                            *)
(***************************************************************************)
C25_LookupMonthMeetsInterval ==
  Page =>
    \A j \in 1..Len(ret.val.resultados) :
      LET r == ret.val.resultados[j] IN
      r.periodo = 1 =>
        /\ DaysAfterBase(r.indice_reajuste.data_referencia) >= MinIntersticio
        /\ validar_intersticio_legal(PageContrato.data_base_orcamento, r.mes_reajuste).val[1]

(***************************************************************************)
(* The periods of one run of the calculation page (StoreSpec).             *)
(***************************************************************************)
Vr == call.args[2]
BaseReading ==
  CHOOSE i \in db.indices : i.data_referencia = PageContrato.data_base_orcamento
\* an amount of 2 decimal digits, in hundredths
Cents(d) == Coef(d) * Pow10(CentPlaces + d.exp)
RECURSIVE SumOfR(_)
SumOfR(rs) == IF rs = <<>> THEN 0 ELSE Cents(rs[1].valor_reajuste) + SumOfR(Tail(rs))
\* every K of the run comes from the one base reading and every R from Vr,
\* and the total shown is Vr plus the adjustments of the periods
IndependentPeriods ==
  /\ \A j \in 1..Len(ret.val.resultados) :
       LET r == ret.val.resultados[j] IN
       /\ Ok(r.fator_k) = calcular_fator_k_truncado(BaseReading.valor, r.indice_reajuste.valor)
       /\ Ok(r.valor_reajuste) = calcular_valor_reajuste(Vr, r.fator_k)
       /\ r.valor_reajuste.exp = -CentPlaces
  /\ ret.val.valor_total.exp = -CentPlaces
  /\ Cents(ret.val.valor_total) = Cents(Vr) + SumOfR(ret.val.resultados)

\* C26 as stated: every K_i of a run comes from the same I0 and every R_i
\* from the same Vr, the total shown is truncate_at_2_decimals(Vr + the sum
\* of the R_i), and the total passed to the report generator is that total
C26_Original_ReportCarriesTheTotal ==
  (Page /\ ret.val.resultados # <<>>) =>
    /\ IndependentPeriods
    /\ Cents(ret.val.relatorio.valor_total) = Cents(ret.val.valor_total)

(***************************************************************************)
(* C26: every K_i of a run comes from the same I0 and every R_i from the   *)
(* same Vr, without compounding, and the total shown is                    *)
(* truncate_at_2_decimals(Vr + the sum of the R_i); the report generator   *)
(* is given the first result of the run, with Vr + R of that result alone  *)
(* as its total, which is the total shown when one period gave a result.   *)
(***************************************************************************)
C26_IndependentPeriodsReportOfFirst ==
  (Page /\ ret.val.resultados # <<>>) =>
    /\ IndependentPeriods
    /\ ret.val.relatorio.fator_k = ret.val.resultados[1].fator_k
    /\ ret.val.relatorio.valor_reajuste = ret.val.resultados[1].valor_reajuste
    /\ Cents(ret.val.relatorio.valor_total)
         = Cents(Vr) + Cents(ret.val.resultados[1].valor_reajuste)
    /\ Len(ret.val.resultados) = 1 =>
         Cents(ret.val.relatorio.valor_total) = Cents(ret.val.valor_total)

\* two periods gave a result, and the report carries less than the total
C26_Witness ==
  /\ Page /\ Len(ret.val.resultados) = 2
  /\ Cents(ret.val.resultados[2].valor_reajuste) > 0
  /\ Cents(ret.val.relatorio.valor_total) < Cents(ret.val.valor_total)

(***************************************************************************)
(* C29 (as stated): in every reachable state, after any sequence of index  *)
(* and contract operations, a reading exists for the data_base_orcamento   *)
(* of every stored contract, so that its I0 can always be resolved.        *)
(***************************************************************************)
C29_BaseReadingAlwaysExists ==
  \A c \in db.contratos : HasReading(c.data_base_orcamento)

(***************************************************************************)
(* C24: contract numbers are unique: no two stored contracts have the same *)
(* stripped numero_contrato; criar_contrato and atualizar_contrato with a  *)
(* number already used by another contract fail with an error and leave    *)
(* the stored contracts as they were; criar_contrato also refuses a        *)
(* non-positive initial value, an empty contract number and an empty       *)
(* company name without storing anything.                                  *)
(***************************************************************************)
NumberOf(c) == Strip(c.numero_contrato.s)
UniqueNumbers ==
  \A c1, c2 \in db.contratos : NumberOf(c1) = NumberOf(c2) => c1 = c2
UsedByAnother(numero, id) ==
  \E c \in db.contratos : c.id # id /\ NumberOf(c) = Strip(numero.s)
Refused == ~IsOk(ret') /\ db'.contratos = db.contratos
C24_UniqueContractNumbers ==
  /\ []UniqueNumbers
  /\ [][/\ Called("criar_contrato") =>
            LET a == call'.args IN
            (\/ \E c \in db.contratos : NumberOf(c) = Strip(a[1].s)
             \/ Strip(a[1].s) = <<>>
             \/ Strip(a[3].s) = <<>>
             \/ IsOk(ensure_decimal(a[6])) /\ NonPositive(ensure_decimal(a[6]).val))
              => Refused
        /\ Called("atualizar_contrato") =>
            LET a == call'.args IN
            (a[2] # None /\ UsedByAnother(a[2], a[1])) => Refused]_vars

\* an update to the number of another contract was refused
C24_Witness ==
  /\ call.fn = "atualizar_contrato"
  /\ call.args[2] # None
  /\ UsedByAnother(call.args[2], call.args[1])
  /\ ~IsOk(ret)
  /\ ret.text = "Cannot update: contract number already exists"

(***************************************************************************)
(* C28 (as stated): atualizar_contrato is atomic on failure: when it fails *)
(* (contract not found, empty number, empty company name, non-positive     *)
(* value, duplicate number) no field of the stored contract is changed,    *)
(* also when earlier fields of the call were valid, and no partial change  *)
(* is left pending in the session for a later commit to persist.           *)
(***************************************************************************)
C28_AtomicOnFailure ==
  [][(Called("atualizar_contrato") /\ ~IsOk(ret')) =>
       /\ db' = db
       /\ InSession(db', txn') = db']_vars

====
